---- MODULE Spec2Model ----
(***************************************************************************)
(* A model of fizban: the range resolver and the sticky-aware layout       *)
(* walker of src/src/view.js, and the scene controller that consumes the   *)
(* resolved scenes on every scroll tick.                                   *)
(*                                                                         *)
(* Numbers.  JavaScript numbers that may be fractional (resolved offsets,  *)
(* `add` lengths, scroll positions) are kept in hundredths of a pixel,     *)
(* exactly: every such value of the program is k/100 for an integer k      *)
(* (a percentage of an integer span, n * viewport / 100, or a position     *)
(* rounded to one decimal).  Layout reads (offsetTop, offsetHeight, ...)   *)
(* and the results of transformRangeToPosition are whole pixels.  A        *)
(* progress is the exact fraction n/d.  JavaScript values that are not     *)
(* numbers (undefined, NaN, a string, a range object) are tagged records.  *)
(* Only the vertical axis is modelled (isHorizontal = false): the          *)
(* horizontal one reads offsetLeft/offsetWidth/left/right in the same      *)
(* places.                                                                 *)
(***************************************************************************)
EXTENDS Integers, Sequences, FiniteSets, TLC

VARIABLES
  resolver,      \* one call of transformRangeToPosition: its arguments and result
  dom,           \* the offsetParent chain of the viewSource, subject first
  viewportSize,  \* extent of the viewport along the scroll axis
  fallback,      \* TRUE: the revision of transformSceneRangesToOffsets that derives a missing duration
  config,        \* config.scenes as given by the user
  calls,         \* the direct calls of getTransformedScene(config.scenes[0]) so far:
                 \* [dom, the DOM the call found; result, the scene it returned]
  pc,            \* "new" before getController ran, "ready" after
  scenes,        \* _config.scenes of the controller
  lastP,         \* last position processed by tick
  effects,       \* the effect invocations of the last tick, in order
  parser,        \* one call of transformAbsoluteOffsetToNumber: its arguments and outcome
  page,          \* the page a controller lives in: its elements, window size and timers
  ctl,           \* the closure of one getController(config) with its observers
  scr,           \* one Scroll instance and the animation frames of its window
  walk,          \* one run of computeStickinessIntoFullRange, node by node
  transition,    \* one started Scroll instance with transitionActive and its frames
  ticker         \* the ticker: its pool, its loop frames and the instances it ticks

vars == <<resolver, dom, viewportSize, fallback, config, calls, pc, scenes, lastP, effects,
          parser, page, ctl, scr, walk, transition, ticker>>

\* the variables of the parts a specification leaves alone
viewVars == <<dom, viewportSize, fallback, config, calls, pc, scenes, lastP, effects>>
otherVars == <<parser, page, ctl, scr, walk>>
lateVars == <<transition, ticker>>

----------------------------------------------------------------------------
(* JavaScript values *)

Num(x) == [k |-> "num", v |-> x]
NaN == [k |-> "nan"]
Undef == [k |-> "undef"]
Str(s) == [k |-> "str", s |-> s]
\* a RangeOffset object {name, offset, add}; add is a sequence of characters
RangeOffset(name, offset, add) == [k |-> "range", name |-> name, offset |-> offset, add |-> add]

IsNum(x) == x.k = "num"

\* a + b and a - b of JavaScript, for operands that are numbers, NaN or undefined
JsAdd(a, b) == IF IsNum(a) /\ IsNum(b) THEN Num(a.v + b.v) ELSE NaN
JsSub(a, b) == IF IsNum(a) /\ IsNum(b) THEN Num(a.v - b.v) ELSE NaN

\* ToBoolean
Truthy(x) ==
  CASE x.k = "num" -> x.v # 0
    [] x.k = "nan" -> FALSE
    [] x.k = "undef" -> FALSE
    [] x.k = "str" -> x.s # ""
    [] OTHER -> TRUE

Min(a, b) == IF a <= b THEN a ELSE b
Max(a, b) == IF a >= b THEN a ELSE b
Abs(a) == IF a >= 0 THEN a ELSE -a

\* the quotient n / d (d > 0) with its fraction dropped, as ToInt32 drops it
TruncDiv(n, d) == IF n >= 0 THEN n \div d ELSE -((-n) \div d)

----------------------------------------------------------------------------
(* Range resolver *)

RangeNames == {"entry", "entry-crossing", "contain", "exit", "exit-crossing", "cover"}

\* startPosition of the named range (whole pixels)
RangeStartPosition(name, vs, rect) ==
  CASE name = "entry" -> rect.start - vs
    [] name = "entry-crossing" -> rect.start - vs
    [] name = "contain" -> Min(rect.end - vs, rect.start)
    [] name = "exit" -> Max(rect.start, rect.end - vs)
    [] name = "exit-crossing" -> rect.start
    [] name = "cover" -> rect.start - vs

\* duration of the named range (whole pixels)
RangeDuration(name, vs, rect) ==
  LET height == rect.end - rect.start IN
  CASE name = "entry" -> Min(vs, height)
    [] name = "entry-crossing" -> height
    [] name = "contain" -> Abs(vs - height)
    [] name = "exit" -> Min(vs, height)
    [] name = "exit-crossing" -> height
    [] name = "cover" -> height + vs

\* a resolver that rounds down instead
BitOrZero_floor(n) == n \div 100
\* (x) | 0 for x = n/100: ToInt32 drops the fraction; its wrap at 2^31 is out of
\* reach of the pixel values of the model
BitOrZero(n) == TruncDiv(n, 100)

\* a resolver that reads a name outside the enumeration as 'cover'
transformRangeToPosition_cover(range, vs, rect) ==
  LET offset == IF range.offset.k = "undef" THEN 0 ELSE range.offset.v
      name == IF range.name \in RangeNames THEN range.name ELSE "cover" IN
  BitOrZero(100 * RangeStartPosition(name, vs, rect) + offset * RangeDuration(name, vs, rect))

\* transformRangeToPosition(range, viewportSize, rect): range.offset is a
\* number or undefined (default 0); an unknown name leaves startPosition and
\* duration undefined, and (undefined + NaN) | 0 is 0
transformRangeToPosition(range, vs, rect) ==
  LET offset == IF range.offset.k = "undef" THEN 0 ELSE range.offset.v IN
  IF range.name \notin RangeNames
  THEN 0
  ELSE BitOrZero(100 * RangeStartPosition(range.name, vs, rect)
                 + offset * RangeDuration(range.name, vs, rect))

----------------------------------------------------------------------------
(* Absolute offsets: the `add` of a RangeOffset, a string kept as its      *)
(* sequence of characters                                                  *)

Digits == <<"0", "1", "2", "3", "4", "5", "6", "7", "8", "9">>
IsDigit(c) == \E i \in 1..10 : Digits[i] = c
DigitValue(c) == (CHOOSE i \in 1..10 : Digits[i] = c) - 1
IsSpace(c) == c = " "

CharAt(s, i) == IF i >= 1 /\ i <= Len(s) THEN s[i] ELSE ""

\* index after the run of digits (of spaces) that starts at i
RECURSIVE DigitsEnd(_, _)
DigitsEnd(s, i) == IF IsDigit(CharAt(s, i)) THEN DigitsEnd(s, i + 1) ELSE i
RECURSIVE SpacesEnd(_, _)
SpacesEnd(s, i) == IF IsSpace(CharAt(s, i)) THEN SpacesEnd(s, i + 1) ELSE i

\* value of the digits s[i..j-1]
RECURSIVE DigitsValue(_, _, _)
DigitsValue(s, i, j) ==
  IF i >= j THEN 0 ELSE 10 * DigitsValue(s, i, j - 1) + DigitValue(s[j - 1])

\* -?\d+ at i, its digits running from `from` to `to`: [ok, next, value]
ScanIntBetween(s, neg, from, to) ==
  [ok |-> to > from, next |-> to,
   value |-> IF neg THEN -DigitsValue(s, from, to) ELSE DigitsValue(s, from, to)]
ScanIntFrom(s, neg, from) == ScanIntBetween(s, neg, from, DigitsEnd(s, from))
ScanInt(s, i) == ScanIntFrom(s, CharAt(s, i) = "-", IF CharAt(s, i) = "-" THEN i + 1 ELSE i)

\* the literal word w at i: index after it, or 0
ScanWord(s, i, w) ==
  IF i >= 1 /\ i + Len(w) - 1 <= Len(s) /\ \A j \in 1..Len(w) : s[i + j - 1] = w[j]
  THEN i + Len(w) ELSE 0

Units == {<<"p", "x">>, <<"v", "h">>, <<"v", "w">>, <<"c", "q", "h">>, <<"c", "q", "w">>}

NoLength == [ok |-> FALSE, next |-> 0, value |-> 0, unit |-> <<>>]

\* the unit that follows the number n, out of the units us found there
ScanUnitOf(n, us) ==
  IF us = {} THEN NoLength
  ELSE [ok |-> TRUE, next |-> n.next + Len(CHOOSE x \in us : TRUE), value |-> n.value,
        unit |-> CHOOSE x \in us : TRUE]
ScanUnit(s, n) == ScanUnitOf(n, {u \in Units : n.ok /\ ScanWord(s, n.next, u) # 0})

\* -?\d+((px)|(vh)|(vw)|(cqh)|(cqw)) at i: [ok, next, value, unit]; i = 0 is no place
ScanLength(s, i) == IF i = 0 THEN NoLength ELSE ScanUnit(s, ScanInt(s, i))

\* parseInt(s): leading white space, a sign, then the leading digits; NaN without any
ParseIntBetween(s, neg, from, to) ==
  IF to = from THEN NaN
  ELSE Num(IF neg THEN -DigitsValue(s, from, to) ELSE DigitsValue(s, from, to))
ParseIntFrom(s, neg, from) == ParseIntBetween(s, neg, from, DigitsEnd(s, from))
ParseIntAt(s, a) ==
  ParseIntFrom(s, CharAt(s, a) = "-", IF CharAt(s, a) \in {"-", "+"} THEN a + 1 ELSE a)
parseInt(s) == ParseIntAt(s, SpacesEnd(s, 1))

\* \s*<c>\s* at i: the index after it, or 0 when c is not there (or i is no place)
ScanCharAt(s, i, c) == IF i # 0 /\ CharAt(s, i) = c THEN SpacesEnd(s, i + 1) ELSE 0
ScanChar(s, i, c) == IF i = 0 THEN 0 ELSE ScanCharAt(s, SpacesEnd(s, i), c)

\* the match of /^calc\s*\(\s*(<length>)\s*\+\s*(<length>)\s*\)\s*$/:
\* [ok, first, second], the two lengths as ScanLength found them
MatchCalcSecond(s, l1, l2) ==
  [ok |-> l1.ok /\ l2.ok /\ ScanChar(s, l2.next, ")") = Len(s) + 1,
   first |-> l1, second |-> l2]
MatchCalcFirst(s, l1) == MatchCalcSecond(s, l1, ScanLength(s, ScanChar(s, l1.next, "+")))
MatchCalc(s) ==
  MatchCalcFirst(s, ScanLength(s, ScanChar(s, ScanWord(s, 1, <<"c", "a", "l", "c">>), "(")))

\* pixels of one <n><unit>, in hundredths
LengthToNumber(l, ctx, container) ==
  CASE l.unit = <<"p", "x">> -> 100 * l.value
    [] l.unit = <<"v", "h">> -> l.value * ctx.viewportHeight
    [] l.unit = <<"v", "w">> -> l.value * ctx.viewportWidth
    [] l.unit = <<"c", "q", "h">> -> l.value * container.offsetHeight
    [] l.unit = <<"c", "q", "w">> -> l.value * container.offsetWidth

\* parseOffsetCalc(offsetString, absoluteOffsetContext, container), m its match
parseOffsetCalc(m, ctx, container) ==
  LengthToNumber(m.first, ctx, container) + LengthToNumber(m.second, ctx, container)

\* parseInt(offsetString) || 0, in hundredths
ParseIntOrZero(n) == IF IsNum(n) THEN 100 * n.v ELSE 0

\* the branches of transformAbsoluteOffsetToNumber for a non-empty string s,
\* l its match as a single length and m its match as a calc()
AbsoluteOffsetOf(s, l, m, ctx, container) ==
  IF l.ok /\ l.next = Len(s) + 1
  THEN LengthToNumber(l, ctx, container)
  ELSE IF m.ok
       THEN parseOffsetCalc(m, ctx, container)
       ELSE ParseIntOrZero(parseInt(s))

\* transformAbsoluteOffsetToNumber(offsetString, absoluteOffsetContext, container),
\* in hundredths of a pixel; offsetString is Undef or Str(<characters>)
transformAbsoluteOffsetToNumber(offsetString, ctx, container) ==
  IF offsetString.k = "undef" \/ offsetString.s = <<>>
  THEN 0
  ELSE AbsoluteOffsetOf(offsetString.s, ScanLength(offsetString.s, 1),
                        MatchCalc(offsetString.s), ctx, container)

----------------------------------------------------------------------------
(* The DOM read by the layout walker.  A node of the offsetParent chain:   *)
(*   offsetTop, offsetHeight, offsetWidth  layout reads (offsetTop is the  *)
(*                             offset of the element laid out un-stuck)    *)
(*   sheet    the position the stylesheets give the element                *)
(*   inline   the position of its inline style, "" when it has none        *)
(*   top, bottom   computed top / bottom, as characters                    *)
(*   containerType  computed container-type, "" when unset                 *)
(* dom.chain lists the viewSource and its offsetParents, subject first;    *)
(* dom.atRoot tells whether the chain ends at the scroll root (dom.root)   *)
(* or at a null offsetParent.                                              *)

\* window.getComputedStyle(element).position: an inline position wins
ComputedPosition(node) == IF node.inline # "" THEN node.inline ELSE node.sheet

\* getIsContainer(style)
getIsContainer(node) ==
  IF node.containerType # "" THEN node.containerType # "normal" ELSE FALSE

\* getIsSticky(style)
getIsSticky(node) == ComputedPosition(node) = "sticky"

\* getStickyStartOffset(style, isHorizontal), getStickyEndOffset(style, isHorizontal)
getStickyStartOffset(node) == parseInt(node.top)
getStickyEndOffset(node) == parseInt(node.bottom)

NoSticky == [has |-> FALSE, start |-> Undef, end |-> Undef]

\* a getStickyData that takes an offset that is not a number for 0
StickyDataOf_zero(stickyStart, stickyEnd) ==
  [has |-> TRUE,
   start |-> IF IsNum(stickyStart) THEN stickyStart ELSE Num(0),
   end |-> IF IsNum(stickyEnd) THEN stickyEnd ELSE Num(0)]

\* the object getStickyData builds from the two parsed offsets: has = the
\* object exists; a key that is absent is Undef
StickyDataOf(stickyStart, stickyEnd) ==
  IF IsNum(stickyStart) \/ IsNum(stickyEnd)
  THEN [has |-> TRUE,
        start |-> IF IsNum(stickyStart) THEN stickyStart ELSE Undef,
        end |-> IF IsNum(stickyEnd) THEN stickyEnd ELSE Undef]
  ELSE NoSticky
\* getStickyData(style, isHorizontal)
getStickyData(node) == StickyDataOf(getStickyStartOffset(node), getStickyEndOffset(node))

\* 'start' in sticky, 'end' in sticky (sticky may be undefined)
HasStart(sticky) == sticky.has /\ IsNum(sticky.start)
HasEnd(sticky) == sticky.has /\ IsNum(sticky.end)

\* the element after getRectStart(element, isHorizontal, isSticky): a sticky
\* element is forced static for the read and its inline position is then
\* set to null, which removes it
RectStartStyle(node, isSticky) == IF isSticky THEN [node EXCEPT !.inline = ""] ELSE node

\* the number getRectStart returns: offsetTop || 0, read while static
getRectStart(node) == node.offsetTop

\* the DOM after one walk of getTransformedScene: every node up to the root
\* (excluded) went through getRectStart
DomAfterWalk(d) ==
  [d EXCEPT !.chain = [i \in 1..Len(d.chain) |->
                         RectStartStyle(d.chain[i], getIsSticky(d.chain[i]))]]

\* one node of the offset tree: {element, offset, sticky}; size is
\* element.offsetHeight || 0, read where computeStickinessIntoFullRange reads it
TreeNode(node) ==
  [offset |-> getRectStart(node),
   size |-> node.offsetHeight,
   sticky |-> IF getIsSticky(node) THEN getStickyData(node) ELSE NoSticky]

RootTreeNode(root) == [offset |-> 0, size |-> root.offsetHeight, sticky |-> NoSticky]

Reverse(s) == [i \in 1..Len(s) |-> s[Len(s) + 1 - i]]

\* the offset tree, root first
OffsetTree(d) ==
  LET walked == [i \in 1..Len(d.chain) |-> TreeNode(d.chain[i])]
  IN IF d.atRoot THEN Reverse(Append(walked, RootTreeNode(d.root))) ELSE Reverse(walked)

\* elementLayoutStart: the offsets of the chain, a node with a sticky end left out
LayoutStartOf(n) == IF ~HasEnd(n.sticky) THEN n.offset ELSE 0
RECURSIVE SumLayoutStart(_, _)
SumLayoutStart(chain, i) ==
  IF i > Len(chain) THEN 0
  ELSE LayoutStartOf(TreeNode(chain[i])) + SumLayoutStart(chain, i + 1)

ElementLayoutStart(d) == SumLayoutStart(d.chain, 1)

\* the subject's base rectangle
RectAt(start, size) == [start |-> start, end |-> start + size]
ElementRect(d) == RectAt(ElementLayoutStart(d), d.chain[1].offsetHeight)

\* isFixed: the subject's position, replaced by the last ancestor's when the
\* walk ends at a null offsetParent; that style is read after getRectStart
PositionAfterRead(node) == ComputedPosition(RectStartStyle(node, getIsSticky(node)))
WalkIsFixed(d) ==
  IF Len(d.chain) >= 2 /\ ~d.atRoot
  THEN PositionAfterRead(d.chain[Len(d.chain)]) = "fixed"
  ELSE ComputedPosition(d.chain[1]) = "fixed"

\* the container the cqh / cqw units refer to
WalkContainer(d) ==
  LET found == {i \in 1..Len(d.chain) : getIsContainer(d.chain[i])}
  IN IF found # {} THEN d.chain[CHOOSE i \in found : \A j \in found : i <= j]
     ELSE IF d.atRoot THEN d.root
     ELSE IF Len(d.chain) >= 2 THEN d.chain[1]
     ELSE Undef

----------------------------------------------------------------------------
(* Stickiness propagation *)

\* the sticky-end block of one node; st = [acc, start, end], acc already
\* holding the node's offset; absoluteEndOffset is the end the call was given
StickyEndStep(tree, index, st, absoluteEndOffset, vs) ==
  LET node == tree[index]
      offsetFromViewEnd == node.size + node.sticky.end.v - vs
      stuckStart == st.acc + offsetFromViewEnd - node.offset
      isBeforeStart == stuckStart < st.start
      isInsideDuration == ~isBeforeStart /\ stuckStart <= absoluteEndOffset
      extraOffset == IF isBeforeStart \/ isInsideDuration THEN node.offset ELSE 0
  IN IF HasEnd(node.sticky) /\ index > 1
     THEN [acc |-> st.acc,
           start |-> IF isBeforeStart THEN st.start + extraOffset ELSE st.start,
           end |-> st.end + extraOffset]
     ELSE st

\* a sticky-start block that moves the start whenever it moves the end
StickyStartStep_shift(tree, index, st) ==
  LET node == tree[index]
      stuckStart == st.acc - node.sticky.start.v
      parentSize == tree[index - 1].size
      extraOffset == IF stuckStart <= st.end
                     THEN parentSize - (node.offset + node.size) ELSE 0
  IN IF HasStart(node.sticky) /\ index > 1
     THEN [acc |-> st.acc + extraOffset,
           start |-> st.start + extraOffset,
           end |-> st.end + extraOffset]
     ELSE st

\* the sticky-start block of one node, run after the sticky-end block
StickyStartStep(tree, index, st) ==
  LET node == tree[index]
      stuckStart == st.acc - node.sticky.start.v
      isBeforeStart == stuckStart < st.start
      isInsideDuration == ~isBeforeStart /\ stuckStart <= st.end
      parentSize == tree[index - 1].size
      extraOffset == IF isBeforeStart \/ isInsideDuration
                     THEN parentSize - (node.offset + node.size) ELSE 0
  IN IF HasStart(node.sticky) /\ index > 1
     THEN [acc |-> st.acc + extraOffset,
           start |-> IF isBeforeStart THEN st.start + extraOffset ELSE st.start,
           end |-> st.end + extraOffset]
     ELSE st

\* the forEach of computeStickinessIntoFullRange from node index on
RECURSIVE StickyWalk(_, _, _, _, _)
StickyWalk(tree, index, st, absoluteEndOffset, vs) ==
  IF index > Len(tree) THEN st
  ELSE StickyWalk(tree, index + 1,
                  StickyStartStep(tree, index,
                    StickyEndStep(tree, index,
                                  [st EXCEPT !.acc = st.acc + tree[index].offset],
                                  absoluteEndOffset, vs)),
                  absoluteEndOffset, vs)

\* a propagation that leaves every range as it is
computeStickinessIntoFullRange_none(tree, absoluteStartOffset, absoluteEndOffset, vs) ==
  [start |-> absoluteStartOffset, end |-> absoluteEndOffset]
\* computeStickinessIntoFullRange(offsetTree, absoluteStartOffset, absoluteEndOffset, viewportSize, isHorizontal)
NewAbsoluteRange(st) == [start |-> st.start, end |-> st.end]
computeStickinessIntoFullRange(tree, absoluteStartOffset, absoluteEndOffset, vs) ==
  NewAbsoluteRange(StickyWalk(tree, 1,
                              [acc |-> 0, start |-> absoluteStartOffset, end |-> absoluteEndOffset],
                              absoluteEndOffset, vs))

----------------------------------------------------------------------------
(* Scenes.  A scene is a record                                            *)
(*   start, end, duration   JavaScript values; numbers in hundredths       *)
(*   startRange, endRange   Undef or the RangeOffset kept by a transform   *)
(*   hasView                whether the scene has a viewSource             *)
(*   isFixed                Undef, or [k |-> "bool", b |-> ...]            *)
(*   disabled               the disabled flag (absent counts as FALSE)     *)
(*   index                  scene.index                                    *)

Bool(b) == [k |-> "bool", b |-> b]

\* the sticky-adjusted 0%..100% span of a named range
AdjustedSpan(name, vs, rect, tree) ==
  computeStickinessIntoFullRange(
    tree,
    transformRangeToPosition([name |-> name, offset |-> Num(0)], vs, rect),
    transformRangeToPosition([name |-> name, offset |-> Num(100)], vs, rect),
    vs)

\* newAbsoluteRange.start + (range.offset / 100) * (newAbsoluteRange.end -
\* newAbsoluteRange.start) + add, in hundredths; NaN when range.offset is undefined
OffsetInRange(range, newAbsoluteRange, add) ==
  IF IsNum(range.offset)
  THEN Num(100 * newAbsoluteRange.start
           + range.offset.v * (newAbsoluteRange.end - newAbsoluteRange.start)
           + add)
  ELSE NaN
\* a boundary that applies the percentage first and the stickiness after
ResolveRangeOffset_late(range, vs, rect, ctx, container, tree) ==
  IF IsNum(range.offset)
  THEN Num(100 * computeStickinessIntoFullRange(
                   tree,
                   transformRangeToPosition([name |-> range.name, offset |-> range.offset], vs, rect),
                   transformRangeToPosition([name |-> range.name, offset |-> range.offset], vs, rect),
                   vs).start
           + transformAbsoluteOffsetToNumber(range.add, ctx, container))
  ELSE NaN
\* the startOffset / endOffset of a scene boundary given as a RangeOffset
ResolveRangeOffset(range, vs, rect, ctx, container, tree) ==
  OffsetInRange(range, AdjustedSpan(range.name, vs, rect, tree),
                transformAbsoluteOffsetToNumber(range.add, ctx, container))

\* start?.name
HasName(x) == x.k = "range" /\ x.name # ""

\* overrideDuration of the typeof duration === 'string' branch: endOffset -
\* startOffset as transformRangeToPosition gave them, before the adjustment
DurationOfRange(name, vs, rect, tree) ==
  Num(100 * (transformRangeToPosition([name |-> name, offset |-> Num(100)], vs, rect)
             - transformRangeToPosition([name |-> name, offset |-> Num(0)], vs, rect)))

\* overrideDuration || duration
OrDuration(overrideDuration, duration) ==
  IF Truthy(overrideDuration) THEN overrideDuration ELSE duration

\* `if (!overrideDuration && !duration) overrideDuration = endOffset - startOffset`,
\* the lines of the revision that has them (fb)
FallbackDuration(overrideDuration, duration, startOffset, endOffset, fb) ==
  IF fb /\ ~Truthy(overrideDuration) /\ ~Truthy(duration)
  THEN JsSub(endOffset, startOffset)
  ELSE overrideDuration

\* the object transformSceneRangesToOffsets returns
SceneWithOffsets(scene, startRange, endRange, startOffset, endOffset, overrideDuration, fb) ==
  [scene EXCEPT !.start = startOffset,
                !.end = endOffset,
                !.startRange = startRange,
                !.endRange = endRange,
                !.duration = OrDuration(FallbackDuration(overrideDuration, scene.duration,
                                                         startOffset, endOffset, fb),
                                        scene.duration)]

\* the typeof duration === 'string' branch, newAbsoluteRange and
\* overrideDuration computed
SceneOfDuration(scene, newAbsoluteRange, overrideDuration, fb) ==
  SceneWithOffsets(scene,
                   RangeOffset(scene.duration.s, Num(0), Undef),
                   RangeOffset(scene.duration.s, Num(100), Undef),
                   Num(100 * newAbsoluteRange.start), Num(100 * newAbsoluteRange.end),
                   overrideDuration, fb)

\* startRange || start?.name, endRange || end?.name
UseStart(scene) == Truthy(scene.startRange) \/ HasName(scene.start)
UseEnd(scene) == Truthy(scene.endRange) \/ HasName(scene.end)
\* startRange = startRange || start, endRange = endRange || end
StartRangeOf(scene) ==
  IF UseStart(scene) /\ ~Truthy(scene.startRange) THEN scene.start ELSE scene.startRange
EndRangeOf(scene) ==
  IF UseEnd(scene) /\ ~Truthy(scene.endRange) THEN scene.end ELSE scene.endRange

\* the else branch once startOffset is known
SceneOfRangesFrom(scene, startOffset, vs, rect, ctx, container, tree, fb) ==
  SceneWithOffsets(scene, StartRangeOf(scene), EndRangeOf(scene), startOffset,
                   IF UseEnd(scene)
                   THEN ResolveRangeOffset(EndRangeOf(scene), vs, rect, ctx, container, tree)
                   ELSE IF scene.duration.k \in {"num", "nan"}
                        THEN JsAdd(startOffset, scene.duration)
                        ELSE scene.end,
                   Undef, fb)

\* the else branch
SceneOfRanges(scene, vs, rect, ctx, container, tree, fb) ==
  SceneOfRangesFrom(scene,
                    IF UseStart(scene)
                    THEN ResolveRangeOffset(StartRangeOf(scene), vs, rect, ctx, container, tree)
                    ELSE scene.start,
                    vs, rect, ctx, container, tree, fb)

\* transformSceneRangesToOffsets(scene, rect, viewportSize, isHorizontal,
\* absoluteOffsetContext, container, offsetTree)
transformSceneRangesToOffsets(scene, rect, vs, ctx, container, tree, fb) ==
  IF scene.duration.k = "str"
  THEN SceneOfDuration(scene, AdjustedSpan(scene.duration.s, vs, rect, tree),
                       DurationOfRange(scene.duration.s, vs, rect, tree), fb)
  ELSE SceneOfRanges(scene, vs, rect, ctx, container, tree, fb)

\* absoluteOffsetContext; the viewport of the model is as high as the scroll port
ViewportWidth == 500
AbsoluteOffsetContext(vs) == [viewportWidth |-> ViewportWidth, viewportHeight |-> vs]

\* the scene getTransformedScene(scene, root, viewportSize, isHorizontal,
\* absoluteOffsetContext) returns when the DOM is d
getTransformedScene(scene, d, vs, fb) ==
  [transformSceneRangesToOffsets(scene, ElementRect(d), vs, AbsoluteOffsetContext(vs),
                                 WalkContainer(d), OffsetTree(d), fb)
     EXCEPT !.isFixed = Bool(WalkIsFixed(d))]

----------------------------------------------------------------------------
(* Scene controller *)

\* a progress n/d, d > 0
Frac(n, d) == IF d > 0 THEN [k |-> "num", n |-> n, d |-> d] ELSE [k |-> "num", n |-> -n, d |-> -d]

\* p >= x, p <= x, p > x for a number p and a JavaScript value x
JsGe(p, x) == IsNum(x) /\ p >= x.v
JsLe(p, x) == IsNum(x) /\ p <= x.v
JsGt(p, x) == IsNum(x) /\ p > x.v

\* calcProgress(p, start, end, duration); a duration that is a string makes
\* (p - start) / duration NaN
calcProgress(p, start, end, duration) ==
  IF JsGe(p, start) /\ JsLe(p, end)
  THEN IF Truthy(duration)
       THEN (IF IsNum(duration) THEN Frac(p - start.v, duration.v) ELSE NaN)
       ELSE Frac(1, 1)
  ELSE IF JsGt(p, end) THEN Frac(1, 1) ELSE Frac(0, 1)

\* +p.toFixed(1), p in hundredths and not negative
ToFixed1(p) == ((p + 5) \div 10) * 10

\* scene.end == null, scene.duration == null
IsNullish(x) == x.k = "undef"

\* scene.viewSource && (typeof scene.duration === 'string' || scene.start?.name)
IsRanged(scene) == scene.hasView /\ (scene.duration.k = "str" \/ HasName(scene.start))

\* if (scene.duration == null) scene.duration = scene.end - scene.start
DefaultDuration(scene) ==
  IF IsNullish(scene.duration)
  THEN [scene EXCEPT !.duration = JsSub(scene.end, scene.start)]
  ELSE scene

\* else if (scene.end == null) scene.end = scene.start + scene.duration
DefaultEnd(scene) ==
  IF IsNullish(scene.end)
  THEN [scene EXCEPT !.end = JsAdd(scene.start, scene.duration)]
  ELSE scene

\* the body of config.scenes.map in getController for a scene that has its
\* index, when the DOM is d: [scene, dom]
PrepareIndexed(scene, d, vs, fb) ==
  IF IsRanged(scene)
  THEN [scene |-> DefaultDuration(getTransformedScene(scene, d, vs, fb)),
        dom |-> DomAfterWalk(d)]
  ELSE [scene |-> DefaultDuration(DefaultEnd(scene)), dom |-> d]

\* the same for scene number i (from 1)
PrepareScene(scene, i, d, vs, fb) == PrepareIndexed([scene EXCEPT !.index = i - 1], d, vs, fb)

ConsScene(scene, rest) == [scenes |-> <<scene>> \o rest.scenes, dom |-> rest.dom]

\* config.scenes.map(...) from scene i on: [scenes, dom]
RECURSIVE PrepareScenes(_, _, _, _, _)
PrepareRest(cfg, i, one, vs, fb) ==
  ConsScene(one.scene, PrepareScenes(cfg, i + 1, one.dom, vs, fb))
PrepareScenes(cfg, i, d, vs, fb) ==
  IF i > Len(cfg) THEN [scenes |-> <<>>, dom |-> d]
  ELSE PrepareRest(cfg, i, PrepareScene(cfg[i], i, d, vs, fb), vs, fb)

\* scene.isFixed
IsFixedScene(scene) == scene.isFixed.k = "bool" /\ scene.isFixed.b

\* a turn of the forEach that runs the effect of a disabled scene as well
TickScene_all(scene, p, rest) ==
  [scenes |-> <<IF IsFixedScene(scene)
                THEN [scene EXCEPT !.disabled = TRUE] ELSE scene>> \o rest.scenes,
   effects |-> <<[index |-> scene.index, p |-> p,
                  progress |-> calcProgress(p, scene.start, scene.end, scene.duration)]>>
               \o rest.effects]

\* one turn of the forEach of tick: the scene after it and the effect
\* invocation, put before what the rest of the loop gives
TickScene(scene, p, rest) ==
  IF ~scene.disabled
  THEN [scenes |-> <<IF IsFixedScene(scene)
                     THEN [scene EXCEPT !.disabled = TRUE] ELSE scene>> \o rest.scenes,
        effects |-> <<[index |-> scene.index, p |-> p,
                       progress |-> calcProgress(p, scene.start, scene.end, scene.duration)]>>
                    \o rest.effects]
  ELSE [scenes |-> <<scene>> \o rest.scenes, effects |-> rest.effects]

\* the loop of tick over _config.scenes from scene i on: the scenes after it
\* and the effect invocations it made
RECURSIVE TickScenes(_, _, _)
TickScenes(ss, i, p) ==
  IF i > Len(ss) THEN [scenes |-> <<>>, effects |-> <<>>]
  ELSE TickScene(ss[i], p, TickScenes(ss, i + 1, p))

----------------------------------------------------------------------------
(* Inputs *)

Chars_auto == <<"a", "u", "t", "o">>
Chars_0px == <<"0", "p", "x">>
Chars_20px == <<"2", "0", "p", "x">>

Style(sheet, inline, top, bottom) ==
  [sheet |-> sheet, inline |-> inline, top |-> top, bottom |-> bottom]

\* static, fixed, sticky by stylesheet (top, bottom, both, neither) and
\* sticky by inline style
SubjectStyles ==
  { Style("static", "", Chars_auto, Chars_auto),
    Style("fixed", "", Chars_auto, Chars_auto),
    Style("sticky", "", Chars_0px, Chars_auto),
    Style("sticky", "", Chars_auto, Chars_0px),
    Style("sticky", "", Chars_20px, Chars_0px),
    Style("sticky", "", Chars_auto, Chars_auto),
    Style("static", "sticky", Chars_0px, Chars_auto) }

AncestorStyles ==
  { Style("static", "", Chars_auto, Chars_auto),
    Style("fixed", "", Chars_auto, Chars_auto),
    Style("sticky", "", Chars_0px, Chars_auto),
    Style("sticky", "", Chars_auto, Chars_0px) }

Geom(top, height) == [offsetTop |-> top, offsetHeight |-> height]
SubjectGeoms == {Geom(50, 50), Geom(0, 150)}
AncestorGeoms == {Geom(100, 200), Geom(200, 100)}

Node(g, st) ==
  [offsetTop |-> g.offsetTop, offsetHeight |-> g.offsetHeight, offsetWidth |-> 300,
   sheet |-> st.sheet, inline |-> st.inline, top |-> st.top, bottom |-> st.bottom,
   containerType |-> ""]

RootNode == Node(Geom(0, 400), Style("static", "", Chars_auto, Chars_auto))

Subjects == {Node(g, st) : g \in SubjectGeoms, st \in SubjectStyles}
Ancestors == {Node(g, st) : g \in AncestorGeoms, st \in AncestorStyles}

\* chains of one or two nodes
Chains == {<<s>> : s \in Subjects} \cup {<<s, a>> : s \in Subjects, a \in Ancestors}

Doms == {[chain |-> c, atRoot |-> r, root |-> RootNode] : c \in Chains, r \in BOOLEAN}

ViewportSizes == {50, 200}

Chars(s) ==
  CASE s = "-50px" -> <<"-", "5", "0", "p", "x">>
    [] s = "-50vh" -> <<"-", "5", "0", "v", "h">>
    [] s = "calc(10vh + 25px)" ->
         <<"c", "a", "l", "c", "(", "1", "0", "v", "h", " ", "+", " ", "2", "5", "p", "x", ")">>
    [] s = "20vw" -> <<"2", "0", "v", "w">>
    [] s = "10cqh" -> <<"1", "0", "c", "q", "h">>
    [] s = "10cqw" -> <<"1", "0", "c", "q", "w">>
    [] s = "calc(10cqh + 5px)" -> <<"c", "a", "l", "c", "(", "1", "0", "c", "q", "h", " ", "+", " ", "5", "p", "x", ")">>
    [] s = "calc(5px+10cqw)" -> <<"c", "a", "l", "c", "(", "5", "p", "x", "+", "1", "0", "c", "q", "w", ")">>
    [] s = "calc(10vh - 25px)" -> <<"c", "a", "l", "c", "(", "1", "0", "v", "h", " ", "-", " ", "2", "5", "p", "x", ")">>
    [] s = "abc" -> <<"a", "b", "c">>
    [] s = "12.5px" -> <<"1", "2", ".", "5", "p", "x">>
    [] s = "7" -> <<"7">>
    [] s = "px" -> <<"p", "x">>
    [] s = " 8px" -> <<" ", "8", "p", "x">>
    [] s = "calc( -5vw + 100vh )" -> <<"c", "a", "l", "c", "(", " ", "-", "5", "v", "w", " ", "+", " ", "1", "0", "0", "v", "h", " ", ")">>

SceneOf(start, end, duration, hasView) ==
  [start |-> start, end |-> end, duration |-> duration,
   startRange |-> Undef, endRange |-> Undef, hasView |-> hasView,
   isFixed |-> Undef, disabled |-> FALSE, index |-> 0]

Starts ==
  { RangeOffset("entry", Num(0), Undef),
    RangeOffset("entry", Num(50), Str(Chars("-50px"))),
    RangeOffset("contain", Num(40), Undef),
    RangeOffset("exit", Undef, Undef) }

Ends ==
  { RangeOffset("contain", Num(100), Undef),
    RangeOffset("contain", Num(50), Str(Chars("-50vh"))),
    RangeOffset("exit", Num(60), Str(Chars("calc(10vh + 25px)"))),
    RangeOffset("entry", Undef, Undef) }

\* a Range Name outside the enumeration
UnknownRange == "cover-all"

\* scenes that reference the unknown Range Name
UnknownRangeConfigs ==
  {SceneOf(Undef, Undef, Str(UnknownRange), TRUE),
   SceneOf(RangeOffset(UnknownRange, Num(50), Str(Chars("-50px"))),
           RangeOffset(UnknownRange, Num(100), Undef), Undef, TRUE)}

SceneConfigs ==
  {SceneOf(Undef, Undef, Str(n), TRUE) : n \in RangeNames}
  \cup {SceneOf(s, e, Undef, TRUE) : s \in Starts, e \in Ends}
  \cup {SceneOf(RangeOffset("entry", Num(40), Undef), Undef, Num(16000), TRUE),
        SceneOf(Num(0), Undef, Num(50000), FALSE)}
  \cup UnknownRangeConfigs

\* scroll positions in hundredths of a pixel: every 50px, and two in between
MaxScrollStep == 8
ScrollPositions == {5000 * k : k \in 0..MaxScrollStep} \cup {2500, 5004}

MaxCalls == 2

NoCall == [range |-> [name |-> "", offset |-> Undef], viewportSize |-> 0,
           rect |-> [start |-> 0, end |-> 0], called |-> FALSE, result |-> 0]

\* the parts that take no step in a specification
NoParse == [offsetString |-> Undef, ctx |-> [viewportWidth |-> 0, viewportHeight |-> 0],
            container |-> Undef, called |-> FALSE, result |-> Undef]
NoPage == [used |-> FALSE]
NoController == [used |-> FALSE]
NoScroll == [used |-> FALSE]
NoWalk == [used |-> FALSE]

NoTransition == [used |-> FALSE]
NoTicker == [used |-> FALSE]

LateIdle ==
  /\ transition = NoTransition
  /\ ticker = NoTicker

OthersIdle ==
  /\ parser = NoParse
  /\ page = NoPage
  /\ ctl = NoController
  /\ scr = NoScroll
  /\ walk = NoWalk

ViewIdle ==
  /\ dom = [chain |-> <<>>, atRoot |-> FALSE, root |-> RootNode]
  /\ viewportSize = 0
  /\ fallback = FALSE
  /\ config = <<>>
  /\ calls = <<>>
  /\ pc = "new"
  /\ scenes = <<>>
  /\ lastP = Undef
  /\ effects = <<>>

----------------------------------------------------------------------------
(* The controller on scroll ticks *)

InitCommon ==
  /\ dom \in Doms
  /\ viewportSize \in ViewportSizes
  /\ fallback \in BOOLEAN
  /\ config \in {<<c>> : c \in SceneConfigs}
  /\ calls = <<>>
  /\ pc = "new"
  /\ scenes = <<>>
  /\ lastP = Undef
  /\ effects = <<>>

Init ==
  /\ resolver = NoCall
  /\ InitCommon
  /\ OthersIdle
  /\ LateIdle

\* getController(config): the scenes are prepared
Setup ==
  /\ pc = "new"
  /\ LET r == PrepareScenes(config, 1, dom, viewportSize, fallback)
     IN /\ scenes' = r.scenes
        /\ dom' = r.dom
  /\ pc' = "ready"
  /\ UNCHANGED <<resolver, viewportSize, fallback, config, calls, lastP, effects>>
  /\ UNCHANGED otherVars
  /\ UNCHANGED lateVars

\* tick({p, vp}) of the controller
Tick(position) ==
  /\ pc = "ready"
  /\ LET p == ToFixed1(position)
     IN IF lastP = Num(p)
        THEN /\ effects' = <<>>
             /\ UNCHANGED <<scenes, lastP>>
        ELSE LET r == TickScenes(scenes, 1, p)
             IN /\ scenes' = r.scenes
                /\ effects' = r.effects
                /\ lastP' = Num(p)
  /\ UNCHANGED <<resolver, dom, viewportSize, fallback, config, calls, pc>>
  /\ UNCHANGED otherVars
  /\ UNCHANGED lateVars

Next ==
  \/ Setup
  \/ \E position \in ScrollPositions : Tick(position)

Spec == Init /\ [][Next]_vars

----------------------------------------------------------------------------
(* Direct calls of getTransformedScene *)

\* getTransformedScene(config.scenes[0], root, viewportSize, false, context)
Call ==
  /\ Len(calls) < MaxCalls
  /\ config[1].hasView
  /\ calls' = Append(calls, [dom |-> dom,
                             result |-> getTransformedScene(config[1], dom, viewportSize, fallback)])
  /\ dom' = DomAfterWalk(dom)
  /\ UNCHANGED <<resolver, viewportSize, fallback, config, pc, scenes, lastP, effects>>
  /\ UNCHANGED otherVars
  /\ UNCHANGED lateVars

NextView == Call

SpecView == Init /\ [][NextView]_vars

----------------------------------------------------------------------------
(* One call of the range resolver *)

\* The arithmetic of the model is exact.  With these sizes the double
\* startPosition + (offset / 100) * duration of the code has the same integer
\* part as the exact value for every offset in 0..100, so that the model's
\* result is the code's.
Offsets == 0..100
RectStarts == {0, 33, 300}
Heights == {0, 33, 101, 151}
RangeViewportSizes == {48, 202}

InitRange ==
  /\ resolver \in {[range |-> [name |-> n, offset |-> o], viewportSize |-> vs,
                    rect |-> [start |-> s, end |-> s + h], called |-> FALSE, result |-> 0] :
                     n \in RangeNames, o \in {Num(x) : x \in Offsets},
                     vs \in RangeViewportSizes, s \in RectStarts, h \in Heights}
  /\ ViewIdle
  /\ LateIdle
  /\ OthersIdle

\* transformRangeToPosition(range, viewportSize, rect)
Resolve ==
  /\ ~resolver.called
  /\ resolver' = [resolver EXCEPT
                    !.called = TRUE,
                    !.result = transformRangeToPosition(resolver.range, resolver.viewportSize,
                                                        resolver.rect)]
  /\ UNCHANGED viewVars
  /\ UNCHANGED lateVars
  /\ UNCHANGED otherVars
  /\ UNCHANGED lateVars

NextRange == Resolve

SpecRange == InitRange /\ [][NextRange]_vars

----------------------------------------------------------------------------
(* One call of transformAbsoluteOffsetToNumber *)

\* the strings handed in as an absolute offset
OffsetTexts ==
  {"-50px", "-50vh", "20vw", "10cqh", "10cqw", "calc(10vh + 25px)", "calc(10cqh + 5px)",
   "calc(5px+10cqw)", "calc( -5vw + 100vh )", "calc(10vh - 25px)", "abc", "12.5px", "7",
   "px", " 8px"}
OffsetStrings == {Undef, Str(<<>>)} \cup {Str(Chars(t)) : t \in OffsetTexts}

\* the containers getTransformedScene hands on: an element, or null (Undef)
\* for a lone element without offsetParent
Containers == {Undef, Node(Geom(0, 100), Style("static", "", Chars_auto, Chars_auto)), RootNode}

\* a length whose unit is read off the container
IsContainerLength(l) == l.ok /\ l.unit \in {<<"c", "q", "h">>, <<"c", "q", "w">>}

\* the call reads container.offsetHeight or container.offsetWidth, l the match
\* of s as a single length and m its match as a calc()
ReadsContainerOf(s, l, m) ==
  IF l.ok /\ l.next = Len(s) + 1
  THEN IsContainerLength(l)
  ELSE m.ok /\ (IsContainerLength(m.first) \/ IsContainerLength(m.second))
ReadsContainer(offsetString) ==
  /\ offsetString.k = "str"
  /\ offsetString.s # <<>>
  /\ ReadsContainerOf(offsetString.s, ScanLength(offsetString.s, 1), MatchCalc(offsetString.s))

\* a TypeError thrown by a property read of null
Thrown == [k |-> "throw"]

\* what a call of transformAbsoluteOffsetToNumber comes to: a number (in
\* hundredths), or the TypeError of container.offsetHeight on a null container
AbsoluteOffsetOutcome(offsetString, ctx, container) ==
  IF ReadsContainer(offsetString) /\ container = Undef
  THEN Thrown
  ELSE Num(transformAbsoluteOffsetToNumber(offsetString, ctx, container))

InitOffset ==
  /\ parser \in {[offsetString |-> o, ctx |-> AbsoluteOffsetContext(vs), container |-> c,
                  called |-> FALSE, result |-> Undef] :
                   o \in OffsetStrings, vs \in ViewportSizes, c \in Containers}
  /\ resolver = NoCall
  /\ ViewIdle
  /\ LateIdle
  /\ page = NoPage
  /\ ctl = NoController
  /\ scr = NoScroll
  /\ walk = NoWalk

\* transformAbsoluteOffsetToNumber(offsetString, absoluteOffsetContext, container)
ParseOffset ==
  /\ ~parser.called
  /\ parser' = [parser EXCEPT
                  !.called = TRUE,
                  !.result = AbsoluteOffsetOutcome(parser.offsetString, parser.ctx,
                                                   parser.container)]
  /\ UNCHANGED <<resolver, page, ctl, scr, walk>>
  /\ UNCHANGED viewVars
  /\ UNCHANGED lateVars

NextOffset == ParseOffset

SpecOffset == InitOffset /\ [][NextOffset]_vars

----------------------------------------------------------------------------
(* One run of computeStickinessIntoFullRange, one node of the offset tree   *)
(* per step                                                                 *)

\* offset trees: the root, then nested elements, each smaller than the
\* element it lies in, down to the subject
MaxDepth == 3
NestedSize(depth) == RootNode.offsetHeight - 80 * depth
NodeOffsets == {0, 50}
Stickies ==
  {NoSticky,
   [has |-> TRUE, start |-> Num(0), end |-> Undef],
   [has |-> TRUE, start |-> Num(20), end |-> Undef],
   [has |-> TRUE, start |-> Undef, end |-> Num(20)],
   [has |-> TRUE, start |-> Num(0), end |-> Num(0)]}
NestedNodes(depth) ==
  {[offset |-> o, size |-> NestedSize(depth), sticky |-> y] : o \in NodeOffsets, y \in Stickies}
RECURSIVE TreesOfDepth(_)
TreesOfDepth(depth) ==
  IF depth = 0 THEN {<<RootTreeNode(RootNode)>>}
  ELSE {Append(t, n) : t \in TreesOfDepth(depth - 1), n \in NestedNodes(depth)}
OffsetTrees == UNION {TreesOfDepth(depth) : depth \in 2..MaxDepth}

\* the 0% and 100% positions of a named range the run starts from
AbsoluteRanges ==
  {[start |-> -150, end |-> -50], [start |-> 0, end |-> 100], [start |-> 100, end |-> 120]}

InitSticky ==
  /\ walk \in {[used |-> TRUE, tree |-> t, viewportSize |-> 200,
                absoluteStartOffset |-> r.start, absoluteEndOffset |-> r.end,
                index |-> 0,
                pre |-> [acc |-> 0, start |-> r.start, end |-> r.end],
                mid |-> [acc |-> 0, start |-> r.start, end |-> r.end],
                st |-> [acc |-> 0, start |-> r.start, end |-> r.end]] :
                t \in OffsetTrees, r \in AbsoluteRanges}
  /\ resolver = NoCall
  /\ ViewIdle
  /\ LateIdle
  /\ parser = NoParse
  /\ page = NoPage
  /\ ctl = NoController
  /\ scr = NoScroll

\* one iteration of the forEach: pre is the state once the node's offset is
\* accumulated, mid the state after the sticky-end block, st the state after
\* the sticky-start block
WalkAfterVisit(w, index, pre, mid) ==
  [w EXCEPT !.index = index, !.pre = pre, !.mid = mid,
            !.st = StickyStartStep(w.tree, index, mid)]
WalkFrom(w, index, pre) ==
  WalkAfterVisit(w, index, pre,
                 StickyEndStep(w.tree, index, pre, w.absoluteEndOffset, w.viewportSize))
VisitNode ==
  /\ walk.index < Len(walk.tree)
  /\ walk' = WalkFrom(walk, walk.index + 1,
                      [walk.st EXCEPT !.acc = walk.st.acc + walk.tree[walk.index + 1].offset])
  /\ UNCHANGED <<resolver, parser, page, ctl, scr>>
  /\ UNCHANGED viewVars
  /\ UNCHANGED lateVars

NextSticky == VisitNode

SpecSticky == InitSticky /\ [][NextSticky]_vars

----------------------------------------------------------------------------
(* The life of a controller: getController, ticks, the notifications of    *)
(* its observers, window resizes with their debounce timer, destroy.       *)
(*                                                                          *)
(* Scene objects live in ctl.heap and are named by their position in it:   *)
(* _config.scenes, rangesToObserve, targetToScene and scenesByElement hold  *)
(* such names, so that two of them can hold the same object or not.  The   *)
(* root is the window.  ctl.revision tells the revision of the controller: *)
(* "dist" (dist/index.cjs) or "part_003", whose viewportResizeHandler is    *)
(* declared a second time inside the if block and whose tick has no        *)
(* isFixed step; controller.js is part_003 with both resize options on.     *)
(* The scenes of this part carry no add length, so that the                *)
(* absoluteOffsetContext taken once at construction does not matter.       *)

Revisions == {"dist", "part_003"}

\* the elements of the page: 1 lies in an offsetParent under the root,
\* 2 is a position: fixed element without offsetParent
Elements == {1, 2}
NoElement == 0
ElementHeights == {50, 150}
ElementDoms ==
  <<[chain |-> <<Node(Geom(50, 50), Style("static", "", Chars_auto, Chars_auto)),
                 Node(Geom(100, 200), Style("static", "", Chars_auto, Chars_auto))>>,
     atRoot |-> TRUE, root |-> RootNode],
    [chain |-> <<Node(Geom(0, 50), Style("fixed", "", Chars_auto, Chars_auto))>>,
     atRoot |-> FALSE, root |-> RootNode]>>

\* the scenes of a configuration, each with its viewSource
ViewScene(el) ==
  [scene |-> SceneOf(RangeOffset("entry", Num(0), Undef), RangeOffset("contain", Num(100), Undef),
                     Undef, TRUE),
   el |-> el]
PlainScene == [scene |-> SceneOf(Num(0), Undef, Num(50000), FALSE), el |-> NoElement]
LifeConfigs ==
  {<<ViewScene(1), ViewScene(1)>>, <<ViewScene(1), ViewScene(2)>>, <<PlainScene, ViewScene(2)>>}

\* observeSourcesResize, observeViewportResize, observeViewportEntry
\* the defaults, and configurations that switch the resize observers on
OptionsOf(s, v, e) ==
  [observeSourcesResize |-> s, observeViewportResize |-> v, observeViewportEntry |-> e]
Options ==
  {OptionsOf(FALSE, FALSE, TRUE), OptionsOf(TRUE, FALSE, TRUE), OptionsOf(TRUE, TRUE, TRUE),
   OptionsOf(TRUE, TRUE, FALSE)}

\* scroll positions of the ticks, in hundredths
LifePositions == {0, 2500, 2504}

\* the resizes (of an element or of the window) of one behaviour
MaxResizes == 3

\* the height of the window when the controller is made
InitialViewport == 50

InitLife ==
  /\ page = [used |-> TRUE, doms |-> ElementDoms, viewport |-> InitialViewport,
             listening |-> FALSE, timer |-> FALSE, resizes |-> 0]
  /\ ctl \in {[used |-> TRUE, revision |-> r, options |-> o, config |-> c,
               created |-> FALSE, destroyed |-> FALSE,
               heap |-> <<>>, scenes |-> <<>>, rangesToObserve |-> <<>>,
               targetToScene |-> <<0, 0>>, scenesByElement |-> <<<<>>, <<>>>>,
               viewportSize |-> 0,
               viewportObserver |-> FALSE, rangesResizeObserver |-> FALSE,
               viewportResizeHandler |-> FALSE,
               lastP |-> Undef, effects |-> <<>>, fixedApplied |-> {}] :
               r \in Revisions, o \in Options, c \in LifeConfigs}
  /\ resolver = NoCall
  /\ ViewIdle
  /\ LateIdle
  /\ parser = NoParse
  /\ scr = NoScroll
  /\ walk = NoWalk

\* the DOM in which the scene of element el is resolved
DomFor(doms, el) == doms[IF el = NoElement THEN 1 ELSE el]
PutDom(doms, el, d) == IF el = NoElement THEN doms ELSE [doms EXCEPT ![el] = d]

\* config.scenes.map(...) from scene i on, the objects made so far in heap:
\* [heap, doms]
RECURSIVE LifePrepare(_, _, _, _, _)
LifePrepareWith(cfg, i, doms, vs, heap, one) ==
  LifePrepare(cfg, i + 1, PutDom(doms, cfg[i].el, one.dom), vs, Append(heap, one.scene))
LifePrepare(cfg, i, doms, vs, heap) ==
  IF i > Len(cfg) THEN [heap |-> heap, doms |-> doms]
  ELSE LifePrepareWith(cfg, i, doms, vs, heap,
                       PrepareScene(cfg[i].scene, i, DomFor(doms, cfg[i].el), vs, FALSE))

\* the scenes pushed to rangesToObserve
RangedOf(cfg, observeSourcesResize) ==
  IF observeSourcesResize
  THEN SelectSeq([i \in 1..Len(cfg) |-> i], LAMBDA i : IsRanged(cfg[i].scene))
  ELSE <<>>

\* targetToScene after rangesToObserve.forEach: the last scene of each element
LastOf(ids, cfg, el) ==
  LET at == {k \in 1..Len(ids) : cfg[ids[k]].el = el}
  IN IF at = {} THEN 0 ELSE ids[CHOOSE k \in at : \A j \in at : j <= k]
TargetToScene(ids, cfg) == [el \in 1..2 |-> LastOf(ids, cfg, el)]

\* scenesByElement after _config.scenes.forEach: the scenes of each element
ScenesByElement(cfg) ==
  [el \in 1..2 |-> SelectSeq([i \in 1..Len(cfg) |-> i], LAMBDA i : cfg[i].el = el)]

\* the controller once its scenes are prepared and its observers set up
Created(c, prepared, ranged) ==
  [c EXCEPT
     !.created = TRUE,
     !.heap = prepared.heap,
     !.scenes = [i \in 1..Len(c.config) |-> i],
     !.rangesToObserve = ranged,
     !.targetToScene = IF ranged # <<>> THEN TargetToScene(ranged, c.config) ELSE @,
     !.rangesResizeObserver = ranged # <<>>,
     !.viewportResizeHandler =
        ranged # <<>> /\ c.options.observeViewportResize /\ c.revision = "dist",
     !.viewportObserver = c.options.observeViewportEntry,
     !.scenesByElement = IF c.options.observeViewportEntry THEN ScenesByElement(c.config) ELSE @]

\* getController(config)
CreateWith(prepared, ranged) ==
  /\ ctl' = Created([ctl EXCEPT !.viewportSize = page.viewport], prepared, ranged)
  /\ page' = [page EXCEPT !.doms = prepared.doms,
                          !.listening = ranged # <<>> /\ ctl.options.observeViewportResize]
Create ==
  /\ ~ctl.created
  /\ CreateWith(LifePrepare(ctl.config, 1, page.doms, page.viewport, <<>>),
                RangedOf(ctl.config, ctl.options.observeSourcesResize))
  /\ UNCHANGED <<resolver, parser, scr, walk>>
  /\ UNCHANGED viewVars
  /\ UNCHANGED lateVars

\* the objects of _config.scenes, in order
SceneObjects(c) == [i \in 1..Len(c.scenes) |-> c.heap[c.scenes[i]]]

\* the heap once the objects of _config.scenes are the records ss
HeapWith(c, ss) ==
  [id \in 1..Len(c.heap) |->
     IF \E i \in 1..Len(c.scenes) : c.scenes[i] = id
     THEN ss[CHOOSE i \in 1..Len(c.scenes) : c.scenes[i] = id]
     ELSE c.heap[id]]

\* the scenes whose effect ran in a tick
IndicesOf(invoked) == {invoked[k].index : k \in 1..Len(invoked)}
\* the scenes of _config.scenes that are isFixed
FixedIndices(c) ==
  {c.heap[c.scenes[i]].index : i \in {j \in 1..Len(c.scenes) : IsFixedScene(c.heap[c.scenes[j]])}}

\* the controller after the loop of tick gave r = [scenes, effects]
Ticked(c, p, r) ==
  [c EXCEPT
     !.heap = IF c.revision = "dist" THEN HeapWith(c, r.scenes) ELSE @,
     !.effects = r.effects,
     !.lastP = Num(p),
     !.fixedApplied = @ \cup (IndicesOf(r.effects) \cap FixedIndices(c))]

\* tick({p, vp})
LifeTick(position) ==
  /\ ctl.created
  /\ ~ctl.destroyed
  /\ ctl' = IF ctl.lastP = Num(ToFixed1(position))
            THEN [ctl EXCEPT !.effects = <<>>]
            ELSE Ticked(ctl, ToFixed1(position), TickScenes(SceneObjects(ctl), 1, ToFixed1(position)))
  /\ UNCHANGED <<resolver, parser, page, scr, walk>>
  /\ UNCHANGED viewVars
  /\ UNCHANGED lateVars

\* the callback of the IntersectionObserver for one intersection of element el
Intersect(el, isIntersecting) ==
  /\ ctl.viewportObserver
  /\ ctl.scenesByElement[el] # <<>>
  /\ ctl' = [ctl EXCEPT
               !.heap = [id \in 1..Len(@) |->
                           IF \E k \in 1..Len(ctl.scenesByElement[el]) :
                                ctl.scenesByElement[el][k] = id
                           THEN [@[id] EXCEPT !.disabled = ~isIntersecting]
                           ELSE @[id]],
               !.fixedApplied =
                  IF isIntersecting
                  THEN @ \ {i - 1 : i \in {j \in 1..Len(ctl.config) : ctl.config[j].el = el}}
                  ELSE @]
  /\ UNCHANGED <<resolver, parser, page, scr, walk>>
  /\ UNCHANGED viewVars
  /\ UNCHANGED lateVars

\* array.indexOf(x): 0 when x is no element
IndexOf(array, x) ==
  IF \E k \in 1..Len(array) : array[k] = x
  THEN CHOOSE k \in 1..Len(array) : array[k] = x /\ \A j \in 1..(k - 1) : array[j] # x
  ELSE 0

\* array.splice(array.indexOf(old), 1, new): index -1 counts from the end
SpliceIndexOf(array, old, new) ==
  [array EXCEPT ![IF IndexOf(array, old) = 0 THEN Len(array) ELSE IndexOf(array, old)] = new]

\* the element of a scene object
ElementOf(c, id) == c.config[c.heap[id].index + 1].el

\* getTransformedScene(scene, root, viewportSize, horizontal, context) for the
\* scene object id
Retransformed(c, doms, id) ==
  getTransformedScene(c.heap[id], doms[ElementOf(c, id)], c.viewportSize, FALSE)

\* an object that nothing refers to any more
Collected == [collected |-> TRUE]
Referenced(c, id) ==
  \/ \E i \in 1..Len(c.scenes) : c.scenes[i] = id
  \/ \E k \in 1..Len(c.rangesToObserve) : c.rangesToObserve[k] = id
  \/ \E el \in 1..2 : c.targetToScene[el] = id
  \/ \E el \in 1..2 : \E k \in 1..Len(c.scenesByElement[el]) : c.scenesByElement[el][k] = id
\* the controller once the objects nothing refers to are garbage
Collect(c) ==
  [c EXCEPT !.heap = [id \in 1..Len(@) |-> IF Referenced(c, id) THEN @[id] ELSE Collected]]

\* the callback of the sources ResizeObserver for an entry of element el
SourcesResized(c, doms, el, scene) ==
  Collect([c EXCEPT
             !.heap = Append(@, Retransformed(c, doms, scene)),
             !.scenes[c.heap[scene].index + 1] = Len(c.heap) + 1,
             !.rangesToObserve = SpliceIndexOf(@, scene, Len(c.heap) + 1)])

\* the element changes its height
ResizedDom(d) ==
  [d EXCEPT !.chain[1].offsetHeight = CHOOSE h \in ElementHeights : h # @]

\* an element is resized; its ResizeObserver, if connected, runs the callback
ResizeElementTo(el, doms) ==
  IF ctl.rangesResizeObserver /\ ctl.targetToScene[el] # 0
  THEN /\ ctl' = SourcesResized(ctl, doms, el, ctl.targetToScene[el])
       /\ page' = [page EXCEPT !.doms = [doms EXCEPT ![el] = DomAfterWalk(@)],
                               !.resizes = @ + 1]
  ELSE /\ ctl' = ctl
       /\ page' = [page EXCEPT !.doms = doms, !.resizes = @ + 1]
ResizeElement(el) ==
  /\ ctl.created
  /\ page.resizes < MaxResizes
  /\ ResizeElementTo(el, [page.doms EXCEPT ![el] = ResizedDom(@)])
  /\ UNCHANGED <<resolver, parser, scr, walk>>
  /\ UNCHANGED viewVars
  /\ UNCHANGED lateVars

\* the window is resized; the listener, if registered, is the debounced
\* handler, which clears its timeout and sets a new one
WindowResize ==
  /\ ctl.created
  /\ page.resizes < MaxResizes
  /\ page' = [page EXCEPT !.viewport = CHOOSE vs \in ViewportSizes : vs # @,
                          !.resizes = @ + 1,
                          !.timer = @ \/ page.listening]
  /\ UNCHANGED <<resolver, parser, ctl, scr, walk>>
  /\ UNCHANGED viewVars
  /\ UNCHANGED lateVars

\* rangesToObserve.map(...) of the viewport resize handler from position k
\* on, each new scene put in place: [ctl, doms]
RECURSIVE ViewportRanges(_, _, _)
ViewportRangeAt(c, doms, k, scene) ==
  ViewportRanges([c EXCEPT !.heap = Append(@, Retransformed(c, doms, scene)),
                           !.scenes[c.heap[scene].index + 1] = Len(c.heap) + 1,
                           !.rangesToObserve[k] = Len(c.heap) + 1],
                 [doms EXCEPT ![ElementOf(c, scene)] = DomAfterWalk(@)], k + 1)
ViewportRanges(c, doms, k) ==
  IF k > Len(c.rangesToObserve) THEN [ctl |-> Collect(c), doms |-> doms]
  ELSE ViewportRangeAt(c, doms, k, c.rangesToObserve[k])

\* the timeout of debounce fires: the viewport resize handler runs
TimerFiresWith(r) ==
  /\ ctl' = r.ctl
  /\ page' = [page EXCEPT !.doms = r.doms, !.timer = FALSE]
TimerFires ==
  /\ page.timer
  /\ TimerFiresWith(ViewportRanges([ctl EXCEPT !.viewportSize = page.viewport], page.doms, 1))
  /\ UNCHANGED <<resolver, parser, scr, walk>>
  /\ UNCHANGED viewVars
  /\ UNCHANGED lateVars

\* destroy()
Destroy ==
  /\ ctl.created
  /\ ~ctl.destroyed
  /\ ctl' = [ctl EXCEPT !.destroyed = TRUE,
                        !.viewportObserver = FALSE,
                        !.rangesResizeObserver = FALSE]
  /\ page' = [page EXCEPT !.listening = IF ctl.viewportResizeHandler THEN FALSE ELSE @]
  /\ UNCHANGED <<resolver, parser, scr, walk>>
  /\ UNCHANGED viewVars
  /\ UNCHANGED lateVars

NextLife ==
  \/ Create
  \/ \E position \in LifePositions : LifeTick(position)
  \/ \E el \in Elements, isIntersecting \in BOOLEAN : Intersect(el, isIntersecting)
  \/ \E el \in Elements : ResizeElement(el)
  \/ WindowResize
  \/ TimerFires
  \/ Destroy

SpecLife == InitLife /\ [][NextLife]_vars

----------------------------------------------------------------------------
(* A Scroll instance on the window: start, pause, destroy, scroll events   *)
(* and animation frames.  transitionActive is false, its default, so that  *)
(* tick hands this.progress to the controller and requests no frame of its *)
(* own; the scenes have no viewSource.  The controller is the one of       *)
(* dist/index.cjs, whose destroy calls the destroy callbacks of the scenes, *)
(* or the one of part_003 and controller.js, whose destroy calls none.     *)

Null == [k |-> "null"]

\* the scenes of a configuration, each with or without a destroy callback
ScrollScene(scene, destroy) == [scene |-> scene, destroy |-> destroy]
ScrollConfigs ==
  {<<ScrollScene(SceneOf(Num(0), Undef, Num(50000), FALSE), FALSE)>>,
   <<ScrollScene(SceneOf(Undef, Undef, Undef, FALSE), TRUE)>>,
   <<ScrollScene(SceneOf(Num(0), Undef, Num(50000), FALSE), FALSE),
     ScrollScene(SceneOf(Undef, Undef, Undef, FALSE), TRUE)>>,
   <<ScrollScene(SceneOf(Num(0), Undef, Num(50000), FALSE), TRUE),
     ScrollScene(SceneOf(Undef, Undef, Undef, FALSE), TRUE)>>}

\* window.scrollY after a scroll, in hundredths
ScrollYs == {0, 30000, 100000}

\* calls of start() in one behaviour, and scroll events between two frames
MaxStarts == 2
MaxTriggers == 3

InitScroll ==
  /\ scr \in {[used |-> TRUE, revision |-> r, config |-> c, listening |-> FALSE, effect |-> Null,
               throttled |-> FALSE, frames |-> 0, position |-> 0, progress |-> [p |-> 0],
               triggers |-> 0, served |-> 0, runs |-> 0, starts |-> 0,
               destroyCalls |-> [i \in 1..Len(c) |-> 0], invoked |-> <<>>,
               thrown |-> FALSE] : c \in ScrollConfigs, r \in Revisions}
  /\ resolver = NoCall
  /\ ViewIdle
  /\ LateIdle
  /\ parser = NoParse
  /\ page = NoPage
  /\ ctl = NoController
  /\ walk = NoWalk

\* destroy() of the controller, by the calls of each destroy callback so
\* far: _config.scenes.forEach(scene => scene.destroy?.()) in dist/index.cjs,
\* no such line in part_003 and controller.js
DestroyScenes(revision, cfg, destroyCalls) ==
  [i \in 1..Len(cfg) |->
     IF revision = "dist" /\ cfg[i].destroy THEN destroyCalls[i] + 1 ELSE destroyCalls[i]]

\* removeEffect(): this.effect && this.effect.destroy(); this.effect = null
removeEffect(s) ==
  [s EXCEPT !.destroyCalls = IF s.effect # Null THEN DestroyScenes(s.revision, s.config, @) ELSE @,
            !.effect = Null]

\* setupEffect(): removeEffect(), then getController(this.config)
setupEffect(s) ==
  [removeEffect(s) EXCEPT
     !.effect = [scenes |-> PrepareScenes([i \in 1..Len(s.config) |-> s.config[i].scene], 1,
                                          ElementDoms[1], InitialViewport, FALSE).scenes,
                 lastP |-> Undef]]

\* start()
ScrollStart ==
  /\ scr.starts < MaxStarts
  /\ scr' = [setupEffect(scr) EXCEPT !.listening = TRUE, !.starts = @ + 1]
  /\ UNCHANGED <<resolver, parser, page, ctl, walk>>
  /\ UNCHANGED viewVars
  /\ UNCHANGED lateVars

\* pause()
ScrollPause ==
  /\ scr.listening
  /\ scr' = [scr EXCEPT !.listening = FALSE]
  /\ UNCHANGED <<resolver, parser, page, ctl, walk>>
  /\ UNCHANGED viewVars
  /\ UNCHANGED lateVars

\* destroy()
ScrollDestroy ==
  /\ scr' = [removeEffect(scr) EXCEPT !.listening = FALSE]
  /\ UNCHANGED <<resolver, parser, page, ctl, walk>>
  /\ UNCHANGED viewVars
  /\ UNCHANGED lateVars

\* a throttled function that requests a frame at every call
frameThrottle_each(s) ==
  [s EXCEPT !.throttled = TRUE, !.frames = @ + 1, !.triggers = @ + 1]

\* one call of the function frameThrottle(fn) returns
frameThrottle(s) ==
  IF ~s.throttled
  THEN [s EXCEPT !.throttled = TRUE, !.frames = @ + 1, !.triggers = @ + 1]
  ELSE [s EXCEPT !.triggers = @ + 1]

\* the root is scrolled to y and its scroll listeners are called
ScrollTo(y) ==
  /\ scr.triggers < MaxTriggers
  /\ scr' = IF scr.listening
            THEN frameThrottle([scr EXCEPT !.position = y])
            ELSE [scr EXCEPT !.position = y]
  /\ UNCHANGED <<resolver, parser, page, ctl, walk>>
  /\ UNCHANGED viewVars
  /\ UNCHANGED lateVars

\* this.effect.tick(progress) of the controller
EffectTicked(effect, p, r) == [scenes |-> r.scenes, lastP |-> Num(p)]
EffectTick(s, p) ==
  IF s.effect.lastP = Num(p)
  THEN [s EXCEPT !.invoked = <<>>]
  ELSE [s EXCEPT !.invoked = TickScenes(s.effect.scenes, 1, p).effects,
                 !.effect = EffectTicked(@, p, TickScenes(s.effect.scenes, 1, p))]

\* the callback frameThrottle requested: throttled = false, then fn(), which
\* measures the scroll position and ticks; this.effect.tick throws when the
\* effect is null
TriggerCallback(s) ==
  IF s.effect = Null
  THEN [s EXCEPT !.throttled = FALSE, !.progress.p = s.position, !.runs = @ + 1,
                 !.invoked = <<>>, !.thrown = TRUE]
  ELSE EffectTick([s EXCEPT !.throttled = FALSE, !.progress.p = s.position, !.runs = @ + 1],
                  ToFixed1(s.position))

\* the callbacks of one animation frame, n of them to go
RECURSIVE RunCallbacks(_, _)
RunCallbacks(s, n) == IF n = 0 THEN s ELSE RunCallbacks(TriggerCallback(s), n - 1)

\* an animation frame runs the callbacks requested since the last one
AnimationFrame ==
  /\ scr.frames > 0
  /\ scr' = RunCallbacks([scr EXCEPT !.frames = 0, !.runs = 0, !.triggers = 0,
                                     !.served = scr.triggers], scr.frames)
  /\ UNCHANGED <<resolver, parser, page, ctl, walk>>
  /\ UNCHANGED viewVars
  /\ UNCHANGED lateVars

NextScroll ==
  \/ ScrollStart
  \/ ScrollPause
  \/ ScrollDestroy
  \/ \E y \in ScrollYs : ScrollTo(y)
  \/ AnimationFrame

SpecScroll == InitScroll /\ [][NextScroll]_vars


----------------------------------------------------------------------------
(* A started Scroll instance with transitionActive (part_002): scroll      *)
(* events, the frame of the throttled trigger and the lerp frames of tick. *)
(* Positions are kept in 1/1024 of a pixel, the interpolation factor in    *)
(* thousandths and the friction in ten-thousandths; with the frictions and *)
(* positions below every product of lerp is a whole number of these units, *)
(* as it is exact in the doubles of the program.                           *)

Pixel == 1024

Sign(x) == IF x > 0 THEN 1 ELSE IF x < 0 THEN -1 ELSE 0

\* lerp(a, b, t, e) of part_001
LerpNearEnd(b, res, e) == IF Abs(b - res) < e THEN b ELSE res
LerpFromStart(a, b, res, e) ==
  LerpNearEnd(b, IF Abs(res - a) < e THEN a + e * Sign(res - a) ELSE res, e)
lerp(a, b, t, e) ==
  IF e # 0 THEN LerpFromStart(a, b, a + ((b - a) * t) \div 1000, e)
  ELSE a + ((b - a) * t) \div 1000

\* +(1 - this.config.transitionFriction).toFixed(3), in thousandths
InterpolationFactor(friction) == ((10000 - friction) + 5) \div 10

\* transitionFriction: 0, the 0.5 of the test, and 0.9996
Frictions == {0, 5000, 9996}
\* transitionEpsilon: the default 1, and 0.5
Epsilons == {Pixel, Pixel \div 2}
\* window.scrollY after a scroll
TransitionYs == {0, 4 * Pixel, 8 * Pixel}

\* scroll events of one behaviour
MaxMoves == 3

\* after start(): the listener is registered, resetProgress has set both
\* progress objects to the scroll position and tick() found nothing to do
InitLerp ==
  /\ transition \in {[used |-> TRUE, friction |-> f, epsilon |-> e, position |-> 0,
                      progress |-> 0, current |-> 0, throttled |-> FALSE,
                      lerpFrames |-> 0, lerpFrameId |-> 0, lastPending |-> FALSE,
                      moves |-> 0] : f \in Frictions, e \in Epsilons}
  /\ ticker = NoTicker
  /\ resolver = NoCall
  /\ ViewIdle
  /\ OthersIdle

\* the root is scrolled to y; the scroll listener is the throttled trigger
TransitionScrollTo(y) ==
  /\ transition.moves < MaxMoves
  /\ y # transition.position
  /\ transition' = [transition EXCEPT !.position = y, !.throttled = TRUE, !.moves = @ + 1]
  /\ UNCHANGED <<resolver, parser, page, ctl, scr, walk, ticker>>
  /\ UNCHANGED viewVars

\* the end of tick(clearLerpFrame): a lerp frame is requested while the
\* interpolated position differs from the measured one, the frame of
\* _lerpFrameId cancelled first when clearLerpFrame is set; _lerpFrameId is
\* 0 at first and then the handle of the latest request, which differs from
\* the one before it
RequestLerpFrame(s, clearLerpFrame) ==
  IF s.current # s.progress
  THEN [s EXCEPT !.lerpFrames = IF clearLerpFrame /\ s.lerpFrameId # 0 /\ s.lastPending
                                THEN @ ELSE @ + 1,
                 !.lerpFrameId = IF @ = 1 THEN 2 ELSE 1,
                 !.lastPending = TRUE]
  ELSE s

\* tick(clearLerpFrame) with transitionActive
TransitionTick(s, clearLerpFrame) ==
  RequestLerpFrame([s EXCEPT !.current = lerp(s.current, s.progress,
                                               InterpolationFactor(s.friction), s.epsilon)],
                   clearLerpFrame)

\* the frame of the throttled trigger: measure, then tick(true)
TriggerFrame ==
  /\ transition.throttled
  /\ transition' = TransitionTick([transition EXCEPT !.throttled = FALSE,
                                                      !.progress = transition.position], TRUE)
  /\ UNCHANGED <<resolver, parser, page, ctl, scr, walk, ticker>>
  /\ UNCHANGED viewVars

\* a pending lerp frame runs tick(): the one of _lerpFrameId or an older one
LerpFrame(isLast) ==
  /\ transition.lerpFrames > 0
  /\ IF isLast THEN transition.lastPending
     ELSE transition.lerpFrames > (IF transition.lastPending THEN 1 ELSE 0)
  /\ transition' = TransitionTick([transition EXCEPT !.lerpFrames = @ - 1,
                                                      !.lastPending = @ /\ ~isLast], FALSE)
  /\ UNCHANGED <<resolver, parser, page, ctl, scr, walk, ticker>>
  /\ UNCHANGED viewVars

LerpFrames == \E isLast \in BOOLEAN : LerpFrame(isLast)

NextLerp ==
  \/ \E y \in TransitionYs : TransitionScrollTo(y)
  \/ TriggerFrame
  \/ LerpFrames

SpecLerp == InitLerp /\ [][NextLerp]_vars

\* every requested animation frame runs
SpecLerpFair == SpecLerp /\ WF_vars(TriggerFrame) /\ WF_vars(LerpFrames)


----------------------------------------------------------------------------
(* The ticker of src/src/ticker.js.  ticker.pool is kept in insertion      *)
(* order, the order a Set is iterated in; ticker.animationFrame is null or *)
(* the handle of a requested frame (a handle is a positive number).  A     *)
(* loop frame runs step by step: the frame requests its successor, then    *)
(* every instance of the pool is ticked in turn, and an instance's tick()  *)
(* may call ticker.add and ticker.remove before it returns.                *)

Instances == {1, 2, 3}
NoInstance == 0

\* calls of add and remove from inside one tick()
MaxCallsInTick == 2

InitTicker ==
  /\ ticker = [used |-> TRUE, pool |-> <<>>, ticking |-> [i \in Instances |-> FALSE],
               animationFrame |-> FALSE, handlePending |-> FALSE, frames |-> 0,
               todo |-> <<>>, inTick |-> NoInstance, callsInTick |-> 0]
  /\ transition = NoTransition
  /\ resolver = NoCall
  /\ ViewIdle
  /\ OthersIdle

InPool(t, i) == \E k \in 1..Len(t.pool) : t.pool[k] = i
Without(s, i) == SelectSeq(s, LAMBDA x : x # i)

\* a stop() that forgets the frame without cancelling it
tickerStop_forget(t) == [t EXCEPT !.animationFrame = FALSE, !.handlePending = FALSE]

\* ticker.stop(): the frame of the handle is cancelled, the handle set to null
tickerStop(t) ==
  [t EXCEPT !.frames = IF t.animationFrame /\ t.handlePending THEN @ - 1 ELSE @,
            !.animationFrame = FALSE,
            !.handlePending = FALSE]

\* ticker.start(): a loop frame is requested unless a handle is kept
tickerStart(t) ==
  IF ~t.animationFrame
  THEN [t EXCEPT !.frames = @ + 1, !.animationFrame = TRUE, !.handlePending = TRUE]
  ELSE t

\* ticker.add(instance); an instance added while the pool is iterated is
\* visited by that iteration
tickerAdd(t, i) ==
  tickerStart([t EXCEPT !.pool = IF InPool(t, i) THEN @ ELSE Append(@, i),
                        !.todo = IF InPool(t, i) \/ t.inTick = NoInstance THEN @
                                 ELSE Append(@, i),
                        !.ticking[i] = TRUE])

\* ticker.remove(instance)
tickerRemoved(t, i) ==
  [t EXCEPT !.pool = Without(@, i),
            !.todo = Without(@, i),
            !.ticking[i] = IF InPool(t, i) THEN FALSE ELSE @]
tickerRemove(t, i) ==
  IF Len(Without(t.pool, i)) = 0 THEN tickerStop(tickerRemoved(t, i)) ELSE tickerRemoved(t, i)

\* a call is made between two frames, or from inside the tick() of the
\* instance the loop is at
MayCall ==
  \/ ticker.inTick = NoInstance /\ ticker.todo = <<>>
  \/ ticker.inTick # NoInstance /\ ticker.callsInTick < MaxCallsInTick
Called(t) == IF t.inTick # NoInstance THEN [t EXCEPT !.callsInTick = @ + 1] ELSE t

Add(i) ==
  /\ MayCall
  /\ ticker' = Called(tickerAdd(ticker, i))
  /\ UNCHANGED <<resolver, parser, page, ctl, scr, walk, transition>>
  /\ UNCHANGED viewVars

Remove(i) ==
  /\ MayCall
  /\ ticker' = Called(tickerRemove(ticker, i))
  /\ UNCHANGED <<resolver, parser, page, ctl, scr, walk, transition>>
  /\ UNCHANGED viewVars

\* a pending loop frame runs: loop requests the next frame, keeps its handle
\* and starts ticker.tick()
LoopFrame(isHandle) ==
  /\ ticker.frames > 0
  /\ ticker.inTick = NoInstance
  /\ ticker.todo = <<>>
  /\ IF isHandle THEN ticker.handlePending
     ELSE ticker.frames > (IF ticker.handlePending THEN 1 ELSE 0)
  /\ ticker' = [ticker EXCEPT !.animationFrame = TRUE, !.handlePending = TRUE,
                              !.todo = ticker.pool]
  /\ UNCHANGED <<resolver, parser, page, ctl, scr, walk, transition>>
  /\ UNCHANGED viewVars

LoopFrames == \E isHandle \in BOOLEAN : LoopFrame(isHandle)

\* the for loop of ticker.tick() calls the tick() of the next instance
EnterTick ==
  /\ ticker.inTick = NoInstance
  /\ ticker.todo # <<>>
  /\ ticker' = [ticker EXCEPT !.inTick = Head(ticker.todo), !.todo = Tail(@),
                              !.callsInTick = 0]
  /\ UNCHANGED <<resolver, parser, page, ctl, scr, walk, transition>>
  /\ UNCHANGED viewVars

\* that tick() returns
LeaveTick ==
  /\ ticker.inTick # NoInstance
  /\ ticker' = [ticker EXCEPT !.inTick = NoInstance]
  /\ UNCHANGED <<resolver, parser, page, ctl, scr, walk, transition>>
  /\ UNCHANGED viewVars

NextTicker ==
  \/ \E i \in Instances : Add(i)
  \/ \E i \in Instances : Remove(i)
  \/ LoopFrames
  \/ EnterTick
  \/ LeaveTick

SpecTicker == InitTicker /\ [][NextTicker]_vars

----------------------------------------------------------------------------
(* Properties of the range resolver (SpecRange) *)

\* the (startPosition, duration) of a named range as the documentation of the
\* ranges tabulates them
RangeTable(name, vs, start, end) ==
  CASE name = "entry" -> <<start - vs, Min(vs, end - start)>>
    [] name = "entry-crossing" -> <<start - vs, end - start>>
    [] name = "contain" -> <<Min(end - vs, start), Abs(vs - (end - start))>>
    [] name = "exit" -> <<Max(start, end - vs), Min(vs, end - start)>>
    [] name = "exit-crossing" -> <<start, end - start>>
    [] name = "cover" -> <<start - vs, (end - start) + vs>>

\* 100 * (startPosition + (offset / 100) * duration) of a resolver call r
Unrounded(r) ==
  100 * RangeTable(r.range.name, r.viewportSize, r.rect.start, r.rect.end)[1]
  + r.range.offset.v * RangeTable(r.range.name, r.viewportSize, r.rect.start, r.rect.end)[2]

\* C1 (as the code has it): transformRangeToPosition returns
\* startPosition + (offset / 100) * duration of the tabulated range with its
\* fraction dropped, i.e. rounded toward zero: floor for a value that is not
\* negative, ceiling for a negative one.
C1_TruncatedTowardZero ==
  resolver.called =>
    resolver.result = IF Unrounded(resolver) >= 0
                      THEN Unrounded(resolver) \div 100
                      ELSE -((-Unrounded(resolver)) \div 100)

\* C1 witness: a call whose unrounded value is negative and not an integer
C1_NegativeFraction ==
  /\ resolver.called
  /\ Unrounded(resolver) < 0
  /\ Unrounded(resolver) % 100 # 0

\* C1 as stated: transformRangeToPosition returns
\* floor(startPosition + (offset / 100) * duration), negative values included
C1_Floor ==
  resolver.called => resolver.result = Unrounded(resolver) \div 100

----------------------------------------------------------------------------
(* Properties of getTransformedScene (SpecView) *)

\* C4 as stated: when the duration of the scene is a range name, the duration
\* of the resolved scene is the sticky-adjusted span, resolved end minus
\* resolved start.
C4_DurationIsAdjustedSpan ==
  \A i \in 1..Len(calls) :
    config[1].duration.k = "str" =>
      calls[i].result.duration = JsSub(calls[i].result.end, calls[i].result.start)

\* a boundary of the configuration that carries its offset, or no range at all
OffsetGiven(x) == x.k = "range" => IsNum(x.offset)

\* C5 as stated: every scene getTransformedScene returns has a numeric start,
\* a numeric end, a numeric duration and a boolean isFixed (the boundaries of
\* the configuration carrying their offsets).
C5_ResolvedFieldsAreNumbers ==
  \A i \in 1..Len(calls) :
    (OffsetGiven(config[1].start) /\ OffsetGiven(config[1].end)) =>
      /\ IsNum(calls[i].result.start)
      /\ IsNum(calls[i].result.end)
      /\ IsNum(calls[i].result.duration)
      /\ calls[i].result.isFixed.k = "bool"

\* the pixels of the add lengths of the configurations, in hundredths
AddPixels(add, vs) ==
  CASE add = Undef -> 0
    [] add = Str(Chars("-50px")) -> -5000
    [] add = Str(Chars("-50vh")) -> -50 * vs
    [] add = Str(Chars("calc(10vh + 25px)")) -> 10 * vs + 2500

\* S + (offset / 100) * (E - S) + addPx for the range offset x over the span
\* [S, E], in hundredths
Interpolated(x, span, offset, vs) ==
  Num(100 * span.start + offset * (span.end - span.start) + AddPixels(x.add, vs))

\* the sticky-adjusted 0% .. 100% span of the range x names, in the DOM d
SpanOf(x, d, vs) == AdjustedSpan(x.name, vs, ElementRect(d), OffsetTree(d))

\* the 0% .. 100% span of the range x names before any sticky adjustment
PlainSpanOf(x, d, vs) ==
  [start |-> transformRangeToPosition([name |-> x.name, offset |-> Num(0)], vs, ElementRect(d)),
   end |-> transformRangeToPosition([name |-> x.name, offset |-> Num(100)], vs, ElementRect(d))]

\* C6: a start or end given as a range offset {name, offset, add} resolves to
\* S + (offset / 100) * (E - S) + addPx, [S, E] being the sticky-adjusted
\* 0% .. 100% span of the named range and addPx the pixels of add.
C6_OffsetWithinAdjustedSpan ==
  \A i \in 1..Len(calls) :
    /\ (config[1].start.k = "range" /\ IsNum(config[1].start.offset)) =>
         calls[i].result.start =
           Interpolated(config[1].start, SpanOf(config[1].start, calls[i].dom, viewportSize),
                        config[1].start.offset.v, viewportSize)
    /\ (config[1].end.k = "range" /\ IsNum(config[1].end.offset)) =>
         calls[i].result.end =
           Interpolated(config[1].end, SpanOf(config[1].end, calls[i].dom, viewportSize),
                        config[1].end.offset.v, viewportSize)

\* C6 witness: a call resolved a start strictly inside a span that the sticky
\* adjustment had stretched, with an add length
C6_InsideStretchedSpan ==
  /\ Len(calls) >= 1
  /\ config[1].start.k = "range"
  /\ IsNum(config[1].start.offset)
  /\ config[1].start.offset.v \in 1..99
  /\ config[1].start.add # Undef
  /\ LET plain == PlainSpanOf(config[1].start, calls[1].dom, viewportSize)
         adjusted == SpanOf(config[1].start, calls[1].dom, viewportSize)
     IN adjusted.end - adjusted.start > plain.end - plain.start
  /\ IsNum(calls[1].result.start)

\* C7 as stated: a range offset without an offset field resolves as if the
\* offset were 0, to the 0% position of the sticky-adjusted range plus add.
C7_MissingOffsetIsZero ==
  \A i \in 1..Len(calls) :
    /\ (config[1].start.k = "range" /\ config[1].start.offset = Undef) =>
         calls[i].result.start =
           Interpolated(config[1].start, SpanOf(config[1].start, calls[i].dom, viewportSize),
                        0, viewportSize)
    /\ (config[1].end.k = "range" /\ config[1].end.offset = Undef) =>
         calls[i].result.end =
           Interpolated(config[1].end, SpanOf(config[1].end, calls[i].dom, viewportSize),
                        0, viewportSize)

\* C8 as stated: two consecutive calls of getTransformedScene on the same
\* scene, nothing else touching the DOM in between, return the same start,
\* end, duration and isFixed.
C8_SecondCallSameResult ==
  Len(calls) >= 2 =>
    /\ calls[2].result.start = calls[1].result.start
    /\ calls[2].result.end = calls[1].result.end
    /\ calls[2].result.duration = calls[1].result.duration
    /\ calls[2].result.isFixed = calls[1].result.isFixed

\* the DOM d with its subject laid out the same but not sticky
Unstuck(d) == [d EXCEPT !.chain[1].sheet = "static", !.chain[1].inline = ""]

\* the parent of the subject in the offset tree of d (a chain of one node
\* under the root has the root for its parent)
ParentOf(d) == IF Len(d.chain) >= 2 THEN d.chain[2] ELSE d.root

\* the subject of d is sticky with top 0px and no sticky bottom, inside a
\* parent that is not sticky and contains it
StickyTopInParent(d) ==
  /\ Len(d.chain) >= 2 \/ d.atRoot
  /\ getIsSticky(d.chain[1])
  /\ d.chain[1].top = Chars_0px
  /\ d.chain[1].bottom = Chars_auto
  /\ ~getIsSticky(ParentOf(d))
  /\ d.chain[1].offsetTop + d.chain[1].offsetHeight <= ParentOf(d).offsetHeight

\* the slack the parent leaves below the subject
SlackBelow(d) == ParentOf(d).offsetHeight - (d.chain[1].offsetTop + d.chain[1].offsetHeight)

\* end - start of a resolved scene, in hundredths
ActiveDuration(scene) == scene.end.v - scene.start.v

\* the point at which the subject of d gets stuck: its layout position less
\* its top of 0px
StuckPoint(d) == ElementRect(d).start

ZeroSpanOf(d, vs) == computeStickinessIntoFullRange(OffsetTree(d), 0, 0, vs)

\* the scene of UnknownRangeConfigs that gives the unknown name as its duration
UnknownAsDuration(scene) == scene.duration.k = "str"

\* C13, corrected: for a scene referencing a Range Name outside the
\* enumeration the NaN of the resolver is turned into 0 by its | 0, and the
\* resolved start and end are definite numbers: those of the point range
\* [0, 0] after the sticky adjustment, interpolated by the offset, plus add.
C13_UnknownRangeResolvesFromZero ==
  \A i \in 1..Len(calls) :
    config[1] \in UnknownRangeConfigs =>
      LET z == ZeroSpanOf(calls[i].dom, viewportSize) IN
      IF UnknownAsDuration(config[1])
      THEN /\ calls[i].result.start = Num(100 * z.start)
           /\ calls[i].result.end = Num(100 * z.end)
      ELSE /\ calls[i].result.start = Num(100 * z.start + 50 * (z.end - z.start) - 5000)
           /\ calls[i].result.end = Num(100 * z.end)

\* C13 witness: a call resolved a scene whose start and end name the unknown
\* range, on an element whose sticky ancestor stretches the point range
C13_UnknownRangeResolved ==
  /\ Len(calls) >= 1
  /\ config[1] \in UnknownRangeConfigs
  /\ ~UnknownAsDuration(config[1])
  /\ ZeroSpanOf(calls[1].dom, viewportSize).end > 0
  /\ IsNum(calls[1].result.start)
  /\ IsNum(calls[1].result.end)

\* C13 as stated: for a scene referencing a Range Name outside the
\* enumeration the resolved start and end offsets are NaN.
C13_UnknownRangeIsNaN ==
  \A i \in 1..Len(calls) :
    config[1] \in UnknownRangeConfigs =>
      /\ calls[i].result.start = NaN
      /\ calls[i].result.end = NaN


\* a node that is sticky with only an end (bottom) offset specified
OnlyStickyEnd(node) ==
  /\ getIsSticky(node)
  /\ IsNum(parseInt(node.bottom))
  /\ ~IsNum(parseInt(node.top))

\* the sum of the layout offsets of the chain from node i on, the root
\* excluded, a node that is sticky with only an end offset left out
RECURSIVE LayoutOffsetsFrom(_, _)
LayoutOffsetsFrom(chain, i) ==
  IF i > Len(chain) THEN 0
  ELSE (IF OnlyStickyEnd(chain[i]) THEN 0 ELSE chain[i].offsetTop)
       + LayoutOffsetsFrom(chain, i + 1)

\* C22 as stated: the subject's base rectangle is {start: L, end: L + size},
\* L being the sum of the layout offsets of the subject and of every ancestor
\* of the chain up to but excluding the scroll root, a node's own offset left
\* out exactly when the node is sticky with only an end offset specified.
C22_BaseRectangle ==
  \A i \in DOMAIN calls :
    ElementRect(calls[i].dom) =
      [start |-> LayoutOffsetsFrom(calls[i].dom.chain, 1),
       end |-> LayoutOffsetsFrom(calls[i].dom.chain, 1) + calls[i].dom.chain[1].offsetHeight]


\* the sticky nodes of a chain, and those of them that lack an offset
StickyNodes(d) == {j \in DOMAIN d.chain : getIsSticky(d.chain[j])}
LacksTop(node) == ~IsNum(parseInt(node.top))
LacksBottom(node) == ~IsNum(parseInt(node.bottom))

\* the DOM with every sticky node that has neither offset made static
WithoutBareSticky(d) ==
  [d EXCEPT !.chain = [j \in DOMAIN d.chain |->
     IF getIsSticky(d.chain[j]) /\ LacksTop(d.chain[j]) /\ LacksBottom(d.chain[j])
     THEN [d.chain[j] EXCEPT !.sheet = "static", !.inline = ""]
     ELSE d.chain[j]]]

\* the place of chain node j in the offset tree of d
TreeIndex(d, j) == Len(OffsetTree(d)) + 1 - j

\* the state computeStickinessIntoFullRange reaches node j of d with, were
\* the range still the base rectangle
ReachedWith(d, j) ==
  [acc |-> ElementRect(d).start, start |-> ElementRect(d).start, end |-> ElementRect(d).end]

\* C23: an absent or unparseable sticky offset is never taken for 0: the
\* sticky data of a sticky node has the key start exactly when parseInt of
\* its top is a number and the key end exactly when parseInt of its bottom
\* is one, and a sticky node with neither has no sticky data; an edge that
\* is missing adjusts no range and leaves the node's offset in the layout
\* start, and a sticky node with neither offset resolves as a static one.
C23_MissingStickyOffsetIsNotZero ==
  \A i \in DOMAIN calls :
    LET d == calls[i].dom IN
    /\ \A j \in StickyNodes(d) :
         LET node == d.chain[j]
             sticky == OffsetTree(d)[TreeIndex(d, j)].sticky
         IN /\ HasStart(sticky) = ~LacksTop(node)
            /\ HasEnd(sticky) = ~LacksBottom(node)
            /\ sticky.has = (~LacksTop(node) \/ ~LacksBottom(node))
            /\ LacksTop(node) =>
                 /\ sticky.start = Undef
                 /\ StickyStartStep(OffsetTree(d), TreeIndex(d, j), ReachedWith(d, j))
                      = ReachedWith(d, j)
            /\ LacksBottom(node) =>
                 /\ sticky.end = Undef
                 /\ StickyEndStep(OffsetTree(d), TreeIndex(d, j), ReachedWith(d, j),
                                  ElementRect(d).end, viewportSize) = ReachedWith(d, j)
                 /\ LayoutStartOf(OffsetTree(d)[TreeIndex(d, j)]) = node.offsetTop
    /\ calls[i].result = getTransformedScene(config[1], WithoutBareSticky(d), viewportSize, fallback)

\* C23 witness: a call on a sticky subject with neither offset and a layout
\* offset, under a sticky ancestor that has a top but no bottom
C23_BareStickyResolved ==
  /\ Len(calls) >= 1
  /\ Len(calls[1].dom.chain) = 2
  /\ getIsSticky(calls[1].dom.chain[1])
  /\ LacksTop(calls[1].dom.chain[1])
  /\ LacksBottom(calls[1].dom.chain[1])
  /\ calls[1].dom.chain[1].offsetTop > 0
  /\ getIsSticky(calls[1].dom.chain[2])
  /\ ~LacksTop(calls[1].dom.chain[2])
  /\ LacksBottom(calls[1].dom.chain[2])
  /\ IsNum(calls[1].result.start)


\* the DOM the latest call of getTransformedScene was made on
BeforeLastCall == calls[Len(calls)].dom

\* C24 as stated: after getTransformedScene returns, the inline position of
\* every element of the chain is the one it had before the call, and an
\* element that was computed as sticky is computed as sticky again.
C24_InlinePositionRestored ==
  Len(calls) >= 1 =>
    \A j \in DOMAIN dom.chain :
      /\ dom.chain[j].inline = BeforeLastCall.chain[j].inline
      /\ getIsSticky(dom.chain[j]) = getIsSticky(BeforeLastCall.chain[j])

----------------------------------------------------------------------------
(* Properties of the controller (Spec) *)

RECURSIVE Gcd(_, _)
Gcd(a, b) == IF b = 0 THEN a ELSE Gcd(b, a % b)

\* n / d = m / e for d > 0 and e > 0
SameFraction(n, d, m, e) ==
  /\ n \div Gcd(Abs(n), d) = m \div Gcd(Abs(m), e)
  /\ d \div Gcd(Abs(n), d) = e \div Gcd(Abs(m), e)

\* the scene an effect invocation was made for
SceneOfEffect(e) == scenes[e.index + 1]

\* the progress of e is clamp01((p - start) / (end - start))
IsClampedFraction(e, start, end) ==
  /\ e.progress.k = "num"
  /\ IF e.p <= start THEN e.progress.n = 0
     ELSE IF e.p >= end THEN e.progress.n = e.progress.d
     ELSE SameFraction(e.progress.n, e.progress.d, e.p - start, end - start)

\* C2 as stated: on a tick, the progress handed to the effect of an enabled
\* scene is clamp01((p - start) / (end - start)) for the scene's resolved
\* start and end (start before end).
C2_ProgressIsClampedFraction ==
  \A i \in 1..Len(effects) :
    (/\ IsNum(SceneOfEffect(effects[i]).start)
     /\ IsNum(SceneOfEffect(effects[i]).end)
     /\ SceneOfEffect(effects[i]).start.v < SceneOfEffect(effects[i]).end.v)
    => IsClampedFraction(effects[i], SceneOfEffect(effects[i]).start.v,
                         SceneOfEffect(effects[i]).end.v)

\* C3 as stated: the progress handed to an effect lies in [0, 1].
C3_ProgressInUnitInterval ==
  \A i \in 1..Len(effects) :
    /\ effects[i].progress.k = "num"
    /\ 0 <= effects[i].progress.n
    /\ effects[i].progress.n <= effects[i].progress.d

\* C10 as stated: the progress handed to the effect of a scene resolved with
\* isFixed = true is exactly 0 or exactly 1.
C10_FixedProgressIsZeroOrOne ==
  \A i \in 1..Len(effects) :
    IsFixedScene(SceneOfEffect(effects[i])) =>
      /\ effects[i].progress.k = "num"
      /\ effects[i].progress.n \in {0, effects[i].progress.d}

----------------------------------------------------------------------------
(* Properties of transformAbsoluteOffsetToNumber (SpecOffset) *)

\* the value of an absolute offset as the documentation gives it, in
\* hundredths: <n>px is n, <n>vh and <n>vw are percentages of the viewport,
\* <n>cqh and <n>cqw of the container, calc(A + B) is the sum, undefined and
\* the empty string are 0, anything else is parseInt or 0
DocumentedOffset(o, ctx, container) ==
  CASE o = Undef -> 0
    [] o = Str(<<>>) -> 0
    [] o = Str(Chars("-50px")) -> -5000
    [] o = Str(Chars("-50vh")) -> -50 * ctx.viewportHeight
    [] o = Str(Chars("20vw")) -> 20 * ctx.viewportWidth
    [] o = Str(Chars("10cqh")) -> 10 * container.offsetHeight
    [] o = Str(Chars("10cqw")) -> 10 * container.offsetWidth
    [] o = Str(Chars("calc(10vh + 25px)")) -> 10 * ctx.viewportHeight + 2500
    [] o = Str(Chars("calc(10cqh + 5px)")) -> 10 * container.offsetHeight + 500
    [] o = Str(Chars("calc(5px+10cqw)")) -> 500 + 10 * container.offsetWidth
    [] o = Str(Chars("calc( -5vw + 100vh )")) -> -5 * ctx.viewportWidth + 100 * ctx.viewportHeight
    [] o = Str(Chars("calc(10vh - 25px)")) -> 0
    [] o = Str(Chars("abc")) -> 0
    [] o = Str(Chars("12.5px")) -> 1200
    [] o = Str(Chars("7")) -> 700
    [] o = Str(Chars("px")) -> 0
    [] o = Str(Chars(" 8px")) -> 800

\* C12 as stated: transformAbsoluteOffsetToNumber never throws and yields a
\* definite number, the documented value of the offset wherever the container
\* it refers to exists.
C12_OffsetIsDefiniteNumber ==
  parser.called =>
    /\ parser.result.k = "num"
    /\ parser.container # Undef =>
         parser.result.v = DocumentedOffset(parser.offsetString, parser.ctx, parser.container)

----------------------------------------------------------------------------
(* Properties of computeStickinessIntoFullRange (SpecSticky) *)

\* the node visited last, and its parent node
Visited == walk.tree[walk.index]
VisitedParent == walk.tree[walk.index - 1]
VisitedStart == walk.index > 1 /\ HasStart(Visited.sticky)
VisitedEnd == walk.index > 1 /\ HasEnd(Visited.sticky)

\* the slack between a sticky-start node's box and its parent's far edge
StartSlack == VisitedParent.size - (Visited.offset + Visited.size)
\* the scroll position at which the visited node gets stuck to the start
StartStuckPoint == walk.mid.acc - Visited.sticky.start.v

EndStuckPoint ==
  (walk.pre.acc - Visited.offset) + Visited.size + Visited.sticky.end.v - walk.viewportSize

\* C20 as stated: for a node with sticky.end and a parent, if stuckStart <= the
\* working end the node's own offset is added to the end, and to the start as
\* well exactly when stuckStart < the working start, also after earlier nodes
\* have moved the working range.
C20_StickyEndStep ==
  VisitedEnd =>
    (EndStuckPoint <= walk.pre.end =>
       /\ walk.mid.end = walk.pre.end + Visited.offset
       /\ walk.mid.start = IF EndStuckPoint < walk.pre.start
                           THEN walk.pre.start + Visited.offset ELSE walk.pre.start)


\* the visited node's sticky-start block alone, and its sticky-end block
\* alone, on the range the node was reached with
StartAlone == StickyStartStep(walk.tree, walk.index, walk.pre)
EndAlone ==
  StickyEndStep(walk.tree, walk.index, walk.pre, walk.absoluteEndOffset, walk.viewportSize)

\* C21 as stated: for a node with both sticky.start and sticky.end the range
\* after the node is the range it was reached with, shifted by the sum of
\* the shifts the sticky-start block alone and the sticky-end block alone
\* apply to that range.
C21_BothApplyAdditively ==
  (VisitedStart /\ VisitedEnd) =>
    /\ walk.st.start = walk.pre.start + (StartAlone.start - walk.pre.start)
                                      + (EndAlone.start - walk.pre.start)
    /\ walk.st.end = walk.pre.end + (StartAlone.end - walk.pre.end)
                                  + (EndAlone.end - walk.pre.end)

----------------------------------------------------------------------------
(* Properties of the life of a controller (SpecLife) *)

\* a step of tick
TickStep == \E position \in LifePositions : LifeTick(position)

\* C11 as stated: once the effect of an isFixed scene has been applied in a
\* tick, the scene is disabled at the end of that tick, and its effect is not
\* invoked on a later tick unless an intersection notification re-enabled it
\* in between (ctl.fixedApplied holds the scenes applied and not re-enabled).
C11_FixedSceneAppliedOnce ==
  [][(ctl.revision = "dist" /\ TickStep) =>
       /\ \A i \in 1..Len(ctl.scenes) :
            (ctl.heap[ctl.scenes[i]].index \in IndicesOf(ctl'.effects)
             /\ IsFixedScene(ctl.heap[ctl.scenes[i]]))
            => ctl'.heap[ctl'.scenes[i]].disabled
       /\ IndicesOf(ctl'.effects) \cap ctl.fixedApplied = {}]_vars

\* the range scenes of the configuration
RangeScenes(c) == {i \in 1..Len(c.config) : IsRanged(c.config[i].scene)}

\* what scene i of the configuration resolves to in the geometry of the page
ResolvedNow(c, doms, i) ==
  getTransformedScene([c.config[i].scene EXCEPT !.index = i - 1], doms[c.config[i].el],
                      c.viewportSize, FALSE)

\* scene i of _config.scenes is resolved against the geometry of the page
IsCurrent(c, doms, i) ==
  /\ c.heap[c.scenes[i]].index = i - 1
  /\ c.heap[c.scenes[i]].start = ResolvedNow(c, doms, i).start
  /\ c.heap[c.scenes[i]].end = ResolvedNow(c, doms, i).end

\* a resize notification of the sources resize observer for element el
SourcesNotified(el) ==
  ResizeElement(el) /\ ctl.rangesResizeObserver /\ ctl.targetToScene[el] # 0

\* C14 as stated: after a resize notification for an element every range
\* scene of that element, and after a debounced viewport resize every range
\* scene, has been replaced at its index by a scene resolved against the
\* current geometry.
C14_ResizeRetransformsInPlace ==
  [][/\ \A el \in Elements :
          SourcesNotified(el) =>
            \A i \in RangeScenes(ctl) :
              ctl.config[i].el = el =>
                ctl'.scenes[i] # ctl.scenes[i] /\ IsCurrent(ctl', page'.doms, i)
     /\ (TimerFires /\ ~ctl.destroyed) =>
          \A i \in RangeScenes(ctl) :
            ctl'.scenes[i] # ctl.scenes[i] /\ IsCurrent(ctl', page'.doms, i)]_vars

\* the index of every scene of _config.scenes that is not disabled, in order
EnabledIndices(c) ==
  LET enabled == SelectSeq([i \in 1..Len(c.scenes) |-> i],
                           LAMBDA i : ~c.heap[c.scenes[i]].disabled)
  IN [k \in 1..Len(enabled) |-> enabled[k] - 1]

\* the scenes whose effect a tick invoked, one entry per invocation, in order
InvokedIndices(c) == [k \in 1..Len(c.effects) |-> c.effects[k].index]

\* C15: a tick at a position that differs, rounded to one decimal, from the
\* last processed one invokes the effect of every scene that is not disabled
\* exactly once, in scene-list order, and no effect of a disabled scene; a tick
\* at the last processed position invokes no effect.
C15_TickInvokesEnabledInOrder ==
  [][\A position \in LifePositions :
       LifeTick(position) =>
         InvokedIndices(ctl') = IF ctl.lastP = Num(ToFixed1(position))
                                THEN <<>> ELSE EnabledIndices(ctl)]_vars

\* C15 witness: a tick over two scenes invoked the effect of one of them only,
\* the other being disabled by an intersection notification
C15_OneOfTwoInvoked ==
  /\ ctl.used
  /\ ctl.revision = "part_003"
  /\ Len(ctl.scenes) = 2
  /\ Len(ctl.effects) = 1
  /\ ctl.lastP # Undef

\* C17 as stated: after destroy() the observers of the controller are
\* disconnected and the resize listener registered at setup is unregistered.
C17_DestroyRemovesEverything ==
  (ctl.used /\ ctl.destroyed) =>
    /\ ~ctl.viewportObserver
    /\ ~ctl.rangesResizeObserver
    /\ ~page.listening


\* the scene object now at index i of _config.scenes
SceneAt(i) == ctl.heap[ctl.scenes[i]]

\* C25 as stated: for a scene configured with start and end and no duration,
\* the duration is resolved end minus resolved start, after the setup and
\* after every re-transform a resize triggers.
C25_DurationIsEndMinusStart ==
  ctl.created =>
    \A i \in 1..Len(ctl.scenes) :
      ctl.config[i].scene.duration = Undef =>
        SceneAt(i).duration = JsSub(SceneAt(i).end, SceneAt(i).start)


\* the indices of the scenes whose viewSource is el
IndicesOfElement(el) == {i \in 1..Len(ctl.config) : ctl.config[i].el = el}

\* C26 as stated: an intersection notification for a viewSource sets the
\* disabled flag a tick reads, at every index of the scene list whose scene
\* has that viewSource, to `not intersecting`, also when a resize re-transform
\* has replaced the scene object since the setup.
C26_NotificationReachesSceneList ==
  [][\A el \in Elements, isIntersecting \in BOOLEAN :
       Intersect(el, isIntersecting) =>
         \A i \in IndicesOfElement(el) :
           ctl'.heap[ctl'.scenes[i]].disabled = ~isIntersecting]_vars


\* the objects _config.scenes holds at the indices of the range scenes, in
\* the order of the scene list
RangeSceneObjects(c) ==
  SelectSeq([i \in 1..Len(c.scenes) |-> IF i \in RangeScenes(c) THEN c.scenes[i] ELSE 0],
            LAMBDA id : id # 0)

\* C27 as stated: whatever resize notifications have run, rangesToObserve
\* holds one entry per range scene, each the very object now stored at that
\* scene's index of the scene list.
C27_RangesCacheIsCurrent ==
  (ctl.created /\ ctl.options.observeSourcesResize) =>
    ctl.rangesToObserve = RangeSceneObjects(ctl)

----------------------------------------------------------------------------
(* Properties of Scroll (SpecScroll) *)

\* the scenes that define a destroy callback
WithDestroy == {i \in 1..Len(scr.config) : scr.config[i].destroy}

\* C16: destroy() leaves the scroll listener unregistered and scroll.effect
\* null, and the destroy callback of every scene that defines one is called
\* exactly once by the destroy() of an instance that has a controller;
\* pause() removes the listener and keeps the effect.
C16_DestroyCallsEachOnce ==
  [][/\ ScrollDestroy =>
          /\ ~scr'.listening
          /\ scr'.effect = Null
          /\ scr.effect # Null =>
               \A i \in WithDestroy : scr'.destroyCalls[i] = scr.destroyCalls[i] + 1
     /\ ScrollPause =>
          /\ ~scr'.listening
          /\ scr'.effect = scr.effect]_vars

\* C18: the calls of the throttled function since the last frame, however
\* many, leave exactly one callback requested; the frame runs fn exactly once,
\* and the tick of Scroll uses the scroll position read at that moment, which
\* is the position of the latest scroll event; a call after the callback ran
\* requests a new one.
C18_OneCallbackPerFrame ==
  [][/\ scr'.frames = IF scr'.triggers >= 1 THEN 1 ELSE 0
     /\ AnimationFrame =>
          /\ scr'.runs = 1
          /\ scr'.progress.p = scr.position
          /\ scr.effect # Null => scr'.effect.lastP = Num(ToFixed1(scr.position))]_vars

\* C18 witness: a frame served several scroll events with one run of fn and
\* ticked the controller at the position of the latest one
C18_SeveralEventsOneRun ==
  /\ scr.used
  /\ scr.served >= 2
  /\ scr.runs = 1
  /\ scr.triggers = 0
  /\ scr.effect # Null
  /\ scr.position > 0
  /\ scr.effect.lastP = Num(scr.position)
  /\ scr.invoked # <<>>


\* C28 as stated: an animation-frame callback that was requested before
\* destroy() and runs after it, when the instance has no controller any
\* more, invokes no scene effect and raises no error.
C28_NoWorkAfterDestroy ==
  [][(AnimationFrame /\ scr.effect = Null /\ ~scr.thrown) =>
       (scr'.invoked = <<>> /\ ~scr'.thrown)]_vars


----------------------------------------------------------------------------
(* Properties of the transition of Scroll (SpecLerpFair) *)

\* the interpolated position lies between x and the measured position
Between(x, lo, hi) == (lo <= x /\ x <= hi) \/ (hi <= x /\ x <= lo)

\* a frame moves the interpolated position toward the measured one and not
\* beyond it
MovesToward ==
  [][(TriggerFrame \/ LerpFrames) =>
       Between(transition'.current, transition.current, transition'.progress)]_vars

\* the transition is over: the interpolated position is the scroll position
\* and no lerp frame is pending
Settled ==
  /\ transition.current = transition.progress
  /\ transition.progress = transition.position
  /\ transition.lerpFrames = 0

\* C29 as stated: with transitionFriction in [0,1) and transitionEpsilon > 0,
\* once the scroll position stops changing currentProgress.p moves toward
\* progress.p without overshooting, equals it after finitely many frames,
\* and no lerp frame is requested from then on; at most one lerp frame is
\* pending at any time.
C29_TransitionSettles ==
  /\ [](transition.lerpFrames <= 1)
  /\ MovesToward
  /\ <>[]Settled


----------------------------------------------------------------------------
(* Properties of the ticker (SpecTicker) *)

\* C30: whatever adds and removes were called, also from inside a tick(),
\* a loop frame is pending exactly when the pool is not empty, never more
\* than one, and instance.ticking is true exactly for the instances of the
\* pool.
C30_LoopRunsIffPoolNotEmpty ==
  /\ (ticker.frames >= 1) = (ticker.pool # <<>>)
  /\ ticker.frames <= 1
  /\ \A i \in Instances : ticker.ticking[i] = InPool(ticker, i)

\* C30 witness: inside its tick() an instance has emptied the pool and added
\* itself again: one frame is pending and the instance is ticking
C30_RestartedInsideTick ==
  /\ ticker.used
  /\ ticker.inTick # NoInstance
  /\ ticker.callsInTick = 2
  /\ ticker.pool = <<ticker.inTick>>
  /\ ticker.todo = <<ticker.inTick>>
  /\ ticker.frames = 1
  /\ ticker.ticking[ticker.inTick]
====
